---------------------------- MODULE Spec2Model ----------------------------
(***************************************************************************)
(* The Unix-socket request/response engine of the interpreter switcher     *)
(* (vscode-extension/src/unixSocketServer): admission of connections,      *)
(* null-terminated JSON framing, validation, dispatch to switchInterpreter,*)
(* response and close.                                                     *)
(*                                                                         *)
(* Node runs every callback (and the promise continuations and nextTick    *)
(* callbacks it triggers) to completion before the next event, so one      *)
(* action of this model is one event-loop callback together with the       *)
(* continuations it runs.  Time is not counted; the timers are ordered by   *)
(* their constants where the order matters (see IdleTimeout).              *)
(***************************************************************************)
EXTENDS Naturals, Integers, Sequences, FiniteSets, Bags, TLC

(***************************************************************************)
(* Program constants (utils/constants.js).                                 *)
(***************************************************************************)
NULL_BYTE == 0
MAX_BUFFER_SIZE == 1024
MAX_CONCURRENT_CLIENT_CONNECTIONS == 5
SOCKET_INACTIVITY_TIMEOUT == 5000
FIRM_SOCKET_CLOSE_TIMEOUT == 3000
INCOMING_MESSAGE_COMPLETION_TIMEOUT_MS == 1000

(***************************************************************************)
(* Bounds of the model.                                                    *)
(***************************************************************************)
\* connections offered to the server in SpecMany, where clients come and go
MaxClients == 6
\* connections offered to the server in SpecFlood, where clients stay
MaxFlood == 8
MaxClosers == 3
MaxBroken == 6
MaxStarts == 2
MaxLife == 2
MaxPair == 2
\* HTTP requests in one run
MaxRequests == 2
\* calls of deactivate in one run
MaxDeactivations == 3
\* callbacks a message processor makes at once, and later
MaxCallbacks == 2
\* the largest maxRetries ensurePythonExtension is called with (its default
\* is 5)
MaxRetries == 6
\* the largest maxAttempts executeWithRetry is called with (its default is 3)
MaxAttempts == 4
\* the largest capacity of a CircularBuffer, and the longest chunk written
\* to one (longer than the capacity, so that a chunk can be too long for an
\* empty buffer)
MaxCapacity == 3
MaxChunkLen == 4
\* the longest pythonPath of the requests whose encoding is decoded again
MaxPathLen == 2
\* streams up to this length are split into chunks in every possible way
MaxFullSplitLen == 64
\* longer streams are cut only within this many bytes of their start, of
\* their end and of MAX_BUFFER_SIZE
CutWindow == 2

(***************************************************************************)
(* Bytes and characters.                                                   *)
(***************************************************************************)
LBrace == 123
RBrace == 125
Quote == 34
Colon == 58
Comma == 44
Backslash == 92
Space == 32
LetterX == 88
Digits == 48..57
\* the three bytes of a UTF-8 byte order mark and the character they encode
BomBytes == <<239, 187, 191>>
BomChar == 65279
ReplacementChar == 65533

\* "action", "pythonPath", "shortName", "set-interpreter", "noop"
KeyAction == <<97, 99, 116, 105, 111, 110>>
KeyPythonPath == <<112, 121, 116, 104, 111, 110, 80, 97, 116, 104>>
KeyShortName == <<115, 104, 111, 114, 116, 78, 97, 109, 101>>
SetInterpreter == <<115, 101, 116, 45, 105, 110, 116, 101, 114, 112, 114, 101, 116, 101, 114>>
Noop == <<110, 111, 111, 112>>
\* "true", "false", "null"
TextTrue == <<116, 114, 117, 101>>
TextFalse == <<102, 97, 108, 115, 101>>
TextNull == <<110, 117, 108, 108>>

Min(S) == CHOOSE x \in S : \A y \in S : x <= y

(***************************************************************************)
(* JSON values.  Every value is a record of the same shape: t is the type, *)
(* s the characters of a string or the digits of a number, m the members   *)
(* of an object in order, each <<key, value>>.                             *)
(***************************************************************************)
JStr(s) == [t |-> "string", s |-> s, m |-> <<>>]
JNum(s) == [t |-> "number", s |-> s, m |-> <<>>]
JObj(m) == [t |-> "object", s |-> <<>>, m |-> m]
JTrue == [t |-> "true", s |-> <<>>, m |-> <<>>]
JFalse == [t |-> "false", s |-> <<>>, m |-> <<>>]
JNull == [t |-> "null", s |-> <<>>, m |-> <<>>]
Undefined == [t |-> "undefined", s |-> <<>>, m |-> <<>>]

\* a continuation byte of UTF-8
IsContinuation(x) == x >= 128 /\ x <= 191

\* Buffer.toString("utf8"): ASCII bytes are their characters, well-formed
\* sequences of two and three bytes (EF BB BF is U+FEFF) the character they
\* encode, any other byte is U+FFFD.  Characters are UTF-16 code units; the
\* model's inputs have no four-byte sequences.
RECURSIVE Utf8Decode(_)
Utf8Decode(b) ==
  IF b = <<>> THEN <<>>
  ELSE IF Len(b) >= 3 /\ SubSeq(b, 1, 3) = BomBytes
       THEN <<BomChar>> \o Utf8Decode(SubSeq(b, 4, Len(b)))
       ELSE IF b[1] < 128
            THEN LET run == Min({i \in 1..(Len(b) + 1) : i = Len(b) + 1 \/ b[i] >= 128})
                 IN  SubSeq(b, 1, run - 1) \o Utf8Decode(SubSeq(b, run, Len(b)))
            ELSE IF b[1] >= 194 /\ b[1] <= 223 /\ Len(b) >= 2 /\ IsContinuation(b[2])
                 THEN <<(b[1] - 192) * 64 + (b[2] - 128)>> \o Utf8Decode(SubSeq(b, 3, Len(b)))
            ELSE IF /\ b[1] >= 224 /\ b[1] <= 239 /\ Len(b) >= 3
                    /\ IsContinuation(b[2]) /\ IsContinuation(b[3])
                    /\ (b[1] = 224 => b[2] >= 160) /\ (b[1] = 237 => b[2] <= 159)
                 THEN <<(b[1] - 224) * 4096 + (b[2] - 128) * 64 + (b[3] - 128)>>
                        \o Utf8Decode(SubSeq(b, 4, Len(b)))
            ELSE <<ReplacementChar>> \o Utf8Decode(SubSeq(b, 2, Len(b)))

\* the UTF-8 bytes of one character below U+10000 (no surrogates among the
\* model's characters)
Utf8Bytes(c) ==
  IF c < 128 THEN <<c>>
  ELSE IF c < 2048 THEN <<192 + (c \div 64), 128 + (c % 64)>>
  ELSE <<224 + (c \div 4096), 128 + ((c \div 64) % 64), 128 + (c % 64)>>

\* Buffer.from(string, "utf8")
RECURSIVE Utf8Encode(_)
Utf8Encode(s) ==
  IF \A i \in 1..Len(s) : s[i] < 128 THEN s
  ELSE LET at == Min({i \in 1..Len(s) : s[i] >= 128})
       IN  SubSeq(s, 1, at - 1) \o Utf8Bytes(s[at]) \o Utf8Encode(SubSeq(s, at + 1, Len(s)))

NoParse == [ok |-> FALSE, val |-> Undefined, next |-> 0]

IsPrefixAt(s, p, w) == p + Len(w) - 1 <= Len(s) /\ SubSeq(s, p, p + Len(w) - 1) = w

\* the value of a hexadecimal digit, -1 for any other character
HexValue(c) ==
  IF c \in Digits THEN c - 48
  ELSE IF c \in 97..102 THEN c - 87
  ELSE IF c \in 65..70 THEN c - 55
  ELSE 0 - 1

\* the character a one-letter escape stands for, -1 if there is none
EscapedChar(e) ==
  CASE e \in {Quote, Backslash, 47} -> e
    [] e = 98 -> 8 [] e = 102 -> 12 [] e = 110 -> 10 [] e = 114 -> 13 [] e = 116 -> 9
    [] OTHER -> 0 - 1

\* the characters of a JSON string from position i on, after those already
\* read: up to the closing quote; an unescaped control character, an unknown
\* escape or the end of the text ends the parse
RECURSIVE ScanString(_, _, _)
ScanString(s, i, acc) ==
  LET stops == {j \in i..Len(s) : s[j] = Quote \/ s[j] = Backslash \/ s[j] < Space}
  IN  IF stops = {} THEN NoParse
      ELSE LET j == Min(stops)
               read == acc \o SubSeq(s, i, j - 1)
           IN  IF s[j] = Quote THEN [ok |-> TRUE, val |-> JStr(read), next |-> j + 1]
               ELSE IF s[j] < Space \/ j + 1 > Len(s) THEN NoParse
               ELSE IF EscapedChar(s[j + 1]) >= 0
                    THEN ScanString(s, j + 2, Append(read, EscapedChar(s[j + 1])))
               ELSE IF /\ s[j + 1] = 117 /\ j + 5 <= Len(s)
                       /\ \A k \in (j + 2)..(j + 5) : HexValue(s[k]) >= 0
                    THEN ScanString(s, j + 6,
                           Append(read, HexValue(s[j + 2]) * 4096 + HexValue(s[j + 3]) * 256
                                        + HexValue(s[j + 4]) * 16 + HexValue(s[j + 5])))
               ELSE NoParse

\* a JSON string starting at the quote at p
ParseString(s, p) == ScanString(s, p + 1, <<>>)

\* a JSON number: the model reads unsigned integers without a leading zero
ParseNumber(s, p) ==
  LET e == Min({i \in p..(Len(s) + 1) : i = Len(s) + 1 \/ s[i] \notin Digits})
  IN  IF e - p > 1 /\ s[p] = 48 THEN [ok |-> TRUE, val |-> JNum(<<48>>), next |-> p + 1]
      ELSE [ok |-> TRUE, val |-> JNum(SubSeq(s, p, e - 1)), next |-> e]

RECURSIVE ParseValue(_, _), ParseMembers(_, _, _)
ParseValue(s, p) ==
  IF p > Len(s) THEN NoParse
  ELSE IF s[p] = Quote THEN ParseString(s, p)
  ELSE IF s[p] \in Digits THEN ParseNumber(s, p)
  ELSE IF IsPrefixAt(s, p, TextTrue) THEN [ok |-> TRUE, val |-> JTrue, next |-> p + 4]
  ELSE IF IsPrefixAt(s, p, TextFalse) THEN [ok |-> TRUE, val |-> JFalse, next |-> p + 5]
  ELSE IF IsPrefixAt(s, p, TextNull) THEN [ok |-> TRUE, val |-> JNull, next |-> p + 4]
  ELSE IF s[p] = LBrace
       THEN IF p + 1 <= Len(s) /\ s[p + 1] = RBrace
            THEN [ok |-> TRUE, val |-> JObj(<<>>), next |-> p + 2]
            ELSE ParseMembers(s, p + 1, <<>>)
  ELSE NoParse

\* the members of an object from p on, after those already read
ParseMembers(s, p, acc) ==
  IF p > Len(s) \/ s[p] # Quote THEN NoParse
  ELSE LET k == ParseString(s, p)
       IN  IF ~k.ok \/ k.next > Len(s) \/ s[k.next] # Colon THEN NoParse
           ELSE LET v == ParseValue(s, k.next + 1)
                IN  IF ~v.ok \/ v.next > Len(s) THEN NoParse
                    ELSE LET all == Append(acc, <<k.val.s, v.val>>)
                         IN  IF s[v.next] = RBrace
                             THEN [ok |-> TRUE, val |-> JObj(all), next |-> v.next + 1]
                             ELSE IF s[v.next] = Comma
                                  THEN ParseMembers(s, v.next + 1, all)
                                  ELSE NoParse

\* JSON.parse: the whole text must be one value
JsonParse(text) ==
  LET r == ParseValue(text, 1)
  IN  IF r.ok /\ r.next = Len(text) + 1 THEN [ok |-> TRUE, val |-> r.val]
      ELSE [ok |-> FALSE, val |-> Undefined]

\* the lower-case hexadecimal digit of n
HexDigit(n) == IF n < 10 THEN 48 + n ELSE 87 + n

\* a string written without any escaping
EscapeChar_none(c) == <<c>>

\* how JSON.stringify writes one character of a string: the quote, the
\* backslash and the control characters are escaped
EscapeChar(c) ==
  CASE c = Quote -> <<Backslash, Quote>>
    [] c = Backslash -> <<Backslash, Backslash>>
    [] c = 8 -> <<Backslash, 98>> [] c = 9 -> <<Backslash, 116>>
    [] c = 10 -> <<Backslash, 110>> [] c = 12 -> <<Backslash, 102>>
    [] c = 13 -> <<Backslash, 114>>
    [] c < Space /\ c \notin {8, 9, 10, 12, 13} ->
         <<Backslash, 117, 48, 48, HexDigit(c \div 16), HexDigit(c % 16)>>
    [] OTHER -> <<c>>

\* the characters of a string as JSON.stringify writes them
RECURSIVE QuoteJson(_)
QuoteJson(s) ==
  IF \A i \in 1..Len(s) : EscapeChar(s[i]) = <<s[i]>> THEN s
  ELSE LET at == Min({i \in 1..Len(s) : EscapeChar(s[i]) # <<s[i]>>})
       IN  SubSeq(s, 1, at - 1) \o EscapeChar(s[at]) \o QuoteJson(SubSeq(s, at + 1, Len(s)))

\* JSON.stringify of a value
RECURSIVE JsonStringify(_), StringifyMembers(_)
JsonStringify(v) ==
  CASE v.t = "string" -> <<Quote>> \o QuoteJson(v.s) \o <<Quote>>
    [] v.t = "number" -> v.s
    [] v.t = "true" -> TextTrue
    [] v.t = "false" -> TextFalse
    [] v.t = "null" -> TextNull
    [] v.t = "object" -> <<LBrace>> \o StringifyMembers(v.m) \o <<RBrace>>
    [] OTHER -> <<>>

StringifyMembers(m) ==
  IF m = <<>> THEN <<>>
  ELSE LET one == <<Quote>> \o QuoteJson(m[1][1]) \o <<Quote, Colon>> \o JsonStringify(m[1][2])
       IN  IF Len(m) = 1 THEN one ELSE one \o <<Comma>> \o StringifyMembers(Tail(m))

\* obj.key in JavaScript: the last member of that name, undefined if there
\* is none or the value is not an object
GetProp(v, key) ==
  LET hits == {i \in 1..Len(v.m) : v.m[i][1] = key}
  IN  IF hits = {} THEN Undefined
      ELSE v.m[CHOOSE i \in hits : \A j \in hits : j <= i][2]

\* JavaScript truthiness
Truthy(v) ==
  CASE v.t = "string" -> v.s # <<>>
    [] v.t = "number" -> \E i \in 1..Len(v.s) : v.s[i] # 48
    [] v.t \in {"true", "object"} -> TRUE
    [] OTHER -> FALSE

\* String.prototype.trim() === ""
TrimIsEmpty(s) ==
  \A i \in 1..Len(s) : s[i] \in {Space, 9, 10, 11, 12, 13, 160, 8232, 8233, BomChar}


(***************************************************************************)
(* Requests and byte streams the clients send.                             *)
(***************************************************************************)
\* "/p", "/q", " " and 12345
PathP == <<47, 112>>
PathQ == <<47, 113>>
Blank == <<Space>>
Number12345 == <<49, 50, 51, 52, 53>>
Filler(n) == [i \in 1..n |-> LetterX]

SetInterpreterRequest(path) ==
  JObj(<< <<KeyAction, JStr(SetInterpreter)>>, <<KeyPythonPath, path>> >>)

\* a frame: the serialized request followed by the terminator
Frame(v) == Utf8Encode(JsonStringify(v)) \o <<NULL_BYTE>>

ValidFrameP == Frame(SetInterpreterRequest(JStr(PathP)))
ValidFrameQ == Frame(SetInterpreterRequest(JStr(PathQ)))
\* a request whose serialization is n bytes long (n >= 45)
SizedRequest(n) == SetInterpreterRequest(JStr(<<47>> \o Filler(n - 45)))

SmallStreams ==
  { ValidFrameP,
    BomBytes \o ValidFrameP,
    Frame(JObj(<< <<KeyAction, JStr(SetInterpreter)>>,
                  <<KeyPythonPath, JStr(PathP)>>,
                  <<KeyShortName, JStr(PathQ)>> >>)),
    \* no pythonPath, an empty one, a blank one, one that is not a string
    Frame(JObj(<< <<KeyAction, JStr(SetInterpreter)>> >>)),
    Frame(SetInterpreterRequest(JStr(<<>>))),
    Frame(SetInterpreterRequest(JStr(Blank))),
    Frame(SetInterpreterRequest(JNum(Number12345))),
    Frame(SetInterpreterRequest(JTrue)),
    \* another action, no action
    Frame(JObj(<< <<KeyAction, JStr(Noop)>>, <<KeyPythonPath, JStr(PathP)>> >>)),
    Frame(JObj(<< <<KeyPythonPath, JStr(PathP)>> >>)),
    \* JSON that is no object, text that is no JSON, the empty message
    Frame(JNull),
    Frame(JNum(Number12345)),
    <<LBrace, Space, LetterX, NULL_BYTE>>,
    <<NULL_BYTE>>,
    \* several frames in a row
    ValidFrameP \o ValidFrameQ,
    ValidFrameQ \o ValidFrameP \o ValidFrameP,
    <<LBrace, LetterX, NULL_BYTE>> \o ValidFrameP,
    \* a message that never ends, and nothing at all
    <<LBrace, Quote, LetterX>>,
    <<>> }

LargeStreams ==
  { \* MAX_BUFFER_SIZE bytes and one more, without a terminator
    Filler(MAX_BUFFER_SIZE),
    Filler(MAX_BUFFER_SIZE + 1),
    \* valid requests of MAX_BUFFER_SIZE bytes and of one more
    Frame(SizedRequest(MAX_BUFFER_SIZE)),
    Frame(SizedRequest(MAX_BUFFER_SIZE + 1)) }

Streams == SmallStreams \cup LargeStreams

\* the stream of a client that connects and sends nothing
SilentStreams == { <<>> }

\* where a stream may be cut into chunks
Cuts(stream) ==
  IF Len(stream) <= MaxFullSplitLen THEN 1..Len(stream)
  ELSE {p \in 1..Len(stream) : \/ p <= CutWindow
                               \/ Len(stream) - p <= CutWindow
                               \/ /\ p >= MAX_BUFFER_SIZE - CutWindow
                                  /\ p <= MAX_BUFFER_SIZE + CutWindow}

\* the lengths of the next chunk of a stream of which `sent` bytes are out
ChunkLens(stream, sent) == {p - sent : p \in {q \in Cuts(stream) : q > sent}}


(***************************************************************************)
(* State.                                                                  *)
(*                                                                         *)
(* conns is the bag of the connections the listener has been offered, one  *)
(* record each; connections in the same state are interchangeable.         *)
(*   kind         admitted, rejected (over the ceiling), dropped (by the   *)
(*                listener's maxConnections) or gone (see Gone)            *)
(*   stream, sent the bytes the client sends and how many it has sent      *)
(*   chunks       the chunks the server has been given (0, 1, 2 = more)    *)
(*   peer         the client's side: open, ended (FIN) or reset            *)
(*   unread       bytes wait unread in the socket (no data listener yet)   *)
(*   tracked      the socket is a member of activeConnections              *)
(*   listening    the lifecycle listeners of startListeners are attached   *)
(*   dataListener dataEventHandler is attached                             *)
(*   msgTimer     messageTimeout: none, pending, cleared or fired          *)
(*   firmTimers   pending timers of firmlyCloseClientConnection            *)
(*   ended        end() was called on the socket; endedBy says by whom     *)
(*   destroyed    the socket is destroyed; closed: "close" was emitted     *)
(*   messageBuffer the bytes accumulated by receiveClientRequest           *)
(*   pc           where handleClientConnection stands: receiving (awaits   *)
(*                receiveClientRequest), handler (awaits switchInterpreter)*)
(*                writing (awaits the write callback), done                *)
(*   received     how receiveClientRequest settled                         *)
(*   calls        the arguments of each call of switchInterpreter          *)
(*   written      the responses the socket accepted, in order              *)
(*   lost         the responses whose write the socket refused             *)
(*   uncaught     an "error" event found no listener                       *)
(* server is the listener: listening, closing (close() called) or closed.  *)
(* socketFile says whether the socket file exists at the server's path.    *)
(* shutdownPromise is the promise of gracefullyShutdownServer: none (not   *)
(* called), pending or resolved.                                           *)
(* gen numbers the server instances: the instance of `server` is the       *)
(* gen-th that startUnixSocketServer created; closing holds the numbers of *)
(* the earlier instances whose close callback has not run yet.             *)
(* activation is how activate ended: none (not called), ok, failed (the    *)
(* error was reported) or threw.  foreign says that the file at the socket *)
(* path was left by somebody else and cannot be unlinked by this process.  *)
(* requests holds the requests of the HTTP transport in order of arrival.  *)
(* serverRef is the variable `server` of the extension module: 0 for null, *)
(* else the number of the instance it refers to; shutdownCalls[g] counts   *)
(* the calls of gracefullyShutdownServer on instance g, deactivations the  *)
(* calls of deactivate.                                                    *)
(* promisified is one call of promisifyCallbackFunction with the          *)
(* connection that waits for it; switching is one call of                 *)
(* switchInterpreter, lookup one call of ensurePythonExtension, retrying   *)
(* one call of executeWithRetry, ring one CircularBuffer.                 *)
(***************************************************************************)
\* promisifyCallbackFunction before it is called
NotCalled ==
  [ state |-> "none", value |-> "", callbackTimeout |-> "none", later |-> <<>>,
    events |-> <<>>, continued |-> FALSE, written |-> <<>> ]

\* switchInterpreter before it is called
NotSwitching ==
  [ pc |-> 0, pythonPath |-> Undefined, shortName |-> Undefined, resolved |-> "none",
    thrown |-> <<>>, settled |-> "none", success |-> FALSE, error |-> "" ]

\* ensurePythonExtension before it is called
NotEnsured ==
  [ pc |-> "idle", maxRetries |-> 0, retryCount |-> 0, lookups |-> 0, found |-> FALSE,
    isActive |-> FALSE, error |-> "" ]

\* executeWithRetry before it is called
NotExecuting ==
  [ pc |-> "idle", maxAttempts |-> 0, attempt |-> 0, calls |-> <<>>, onRetryCalls |-> <<>>,
    errors |-> <<>>, refused |-> FALSE, result |-> "" ]

\* no CircularBuffer has been constructed
NotConstructed ==
  [ capacity |-> 0, buffer |-> <<>>, head |-> 0, tail |-> 0, available |-> 0,
    last |-> [op |-> "none"] ]

VARIABLES conns, server, socketFile, shutdownPromise, gen, closing, activation, foreign,
          requests, serverRef, shutdownCalls, deactivations,
          promisified, switching, lookup, retrying, ring

extVars == <<serverRef, shutdownCalls, deactivations>>

\* the functions that are examined on their own
unitVars == <<promisified, switching, lookup, retrying, ring>>

coreVars ==
  <<server, socketFile, shutdownPromise, gen, closing, activation, foreign, requests,
    serverRef, shutdownCalls, deactivations>>

serverVars == <<coreVars, unitVars>>

vars == <<conns, coreVars, unitVars>>

Pending == [st |-> "pending", val |-> Undefined, err |-> ""]
Resolved(v) == [st |-> "resolved", val |-> v, err |-> ""]
Rejected(e) == [st |-> "rejected", val |-> Undefined, err |-> e]

NewSocket(stream) ==
  [ kind |-> "admitted", stream |-> stream, sent |-> 0, chunks |-> 0, peer |-> "open",
    unread |-> FALSE, tracked |-> FALSE, listening |-> FALSE, dataListener |-> FALSE,
    msgTimer |-> "none", firmTimers |-> 0, ended |-> FALSE, endedBy |-> "none",
    destroyed |-> FALSE, closed |-> FALSE, messageBuffer |-> <<>>, pc |-> "done",
    received |-> Pending, calls |-> <<>>, written |-> <<>>, lost |-> <<>>,
    uncaught |-> FALSE, gen |-> gen ]

Conns == BagToSet(conns)

\* messageBuffer is read by dataEventHandler only, which never runs once it
\* is detached or the socket is destroyed: the model forgets the bytes there
Forget(q) ==
  IF q.destroyed \/ ~q.dataListener THEN [q EXCEPT !.messageBuffer = <<>>] ELSE q

\* a connection whose socket is closed, whose handleClientConnection has
\* returned and that has no timer left can do nothing more: the model keeps
\* no more of it than that it is gone
Gone == [NewSocket(<<>>) EXCEPT !.kind = "gone", !.peer = "reset", !.destroyed = TRUE,
                                !.closed = TRUE, !.gen = 0]
Terminal(q) ==
  /\ q.kind \in {"admitted", "rejected"}
  /\ q.closed /\ ~q.tracked /\ q.pc = "done" /\ q.firmTimers = 0 /\ q.msgTimer # "pending"

Canonical(q) == IF Terminal(q) THEN Gone ELSE Forget(q)

\* the bag with one r replaced by q
Replace(r, q) == (conns (-) SetToBag({r})) (+) SetToBag({Canonical(q)})

\* the Set of utils/constants.js, and its size
activeConnections == {r \in Conns : r.tracked}
ActiveSize == BagCardinality([r \in activeConnections |-> conns[r]])

\* net.Server counts the sockets it created that are not destroyed
ConnectionsOf(g) ==
  BagCardinality([r \in {x \in Conns : ~x.destroyed /\ x.gen = g} |-> conns[r]])

ServerConnections == ConnectionsOf(gen)

(***************************************************************************)
(* Responses.  error is the text of the error ("" when the field is        *)
(* absent), about the request or path the text or the payload quotes.      *)
(***************************************************************************)
Response(success, error, about) == [success |-> success, error |-> error, about |-> about]

RejectionResponse == Response(FALSE, "Server connection limit reached", Undefined)

(***************************************************************************)
(* net.Socket, as far as the handler uses it.                              *)
(***************************************************************************)
\* socket.destroy(): the socket is unusable at once, "close" comes later
SocketDestroy(r) == [r EXCEPT !.destroyed = TRUE]

\* socket.end(): half-close; nothing on a socket already ended or destroyed
SocketEnd(r, by) ==
  IF r.ended \/ r.destroyed THEN r ELSE [r EXCEPT !.ended = TRUE, !.endedBy = by]

\* socket.write() that a socket accepts in any state
SocketWrite_anyState(r, resp) == [r EXCEPT !.written = Append(@, resp)]

\* socket.write(): accepted on a writable socket.  After end() it fails with
\* "write after end" and destroys the socket with that error; on a destroyed
\* socket it fails silently.  The "error" event of the first case runs the
\* listener of startListeners, handleClientError, whose own write is refused
\* by the destroyed socket; without a listener the error is uncaught.
SocketWrite(r, resp) ==
  IF r.destroyed THEN [r EXCEPT !.lost = Append(@, resp)]
  ELSE IF r.ended
       THEN IF r.listening
            THEN [r EXCEPT !.destroyed = TRUE,
                           !.lost = @ \o <<resp, Response(FALSE, "write after end", Undefined)>>]
            ELSE [r EXCEPT !.destroyed = TRUE, !.lost = Append(@, resp), !.uncaught = TRUE]
       ELSE [r EXCEPT !.written = Append(@, resp)]

\* sendJsonResponse: JSON.stringify, the terminator, socket.write
sendJsonResponse(r, resp) == SocketWrite(r, resp)

\* handleClientError that logs the error and writes nothing
handleClientError_logOnly(r, error, about) == r

\* handleClientError: an error response, errors of the write ignored
handleClientError(r, error, about) == sendJsonResponse(r, Response(FALSE, error, about))

\* firmlyCloseClientConnection that only calls end(), with no hard-close timer
firmlyCloseClientConnection_endOnly(r, by) == SocketEnd(r, by)

\* firmlyCloseClientConnection: arm the hard-close timer, then end()
firmlyCloseClientConnection(r, by) ==
  SocketEnd([r EXCEPT !.firmTimers = @ + 1], by)

(***************************************************************************)
(* validateClientRequest and switchInterpreter.                            *)
(***************************************************************************)
validateClientRequest(v) ==
  IF v.t \in {"null", "undefined"}
  THEN [isValid |-> FALSE, error |-> "Failed to process request", about |-> Undefined]
  ELSE LET a == GetProp(v, KeyAction)
           action == IF Truthy(a) THEN a ELSE JStr(<<>>)
       IN  IF action = JStr(SetInterpreter) /\ Truthy(GetProp(v, KeyPythonPath))
           THEN [isValid |-> TRUE, error |-> "", about |-> v]
           ELSE [isValid |-> FALSE, error |-> "Unsupported request", about |-> v]

\* the check at the head of switchInterpreter
SwitchInputInvalid(pythonPath) ==
  ~Truthy(pythonPath) \/ pythonPath.t # "string" \/ TrimIsEmpty(pythonPath.s)

\* what switchInterpreter can return once the Python API has answered:
\* switched, switched but not resolved afterwards, the API threw
HandlerOutcomes == {"switched", "unresolved", "apiError"}

SwitchResult(outcome, pythonPath) ==
  CASE outcome = "invalid" -> Response(FALSE, "pythonPath must be a non-empty string", Undefined)
    [] outcome = "switched" -> Response(TRUE, "", pythonPath)
    [] outcome = "unresolved" -> Response(FALSE, "", pythonPath)
    [] OTHER -> Response(FALSE, "Failed to get Python interpreter", Undefined)


(***************************************************************************)
(* handleClientConnection after its first await.                           *)
(***************************************************************************)
\* the finally block: firmlyCloseClientConnection, and the function returns
Finish(r) == [firmlyCloseClientConnection(r, "pipeline") EXCEPT !.pc = "done"]

\* the response written without waiting for the callback of the write: the
\* finally block follows at once
Respond_noWait(r, resp) == Finish(sendJsonResponse(r, resp))

\* the finally block run before the response is written
Respond_closeFirst(r, resp) ==
  [sendJsonResponse(firmlyCloseClientConnection(r, "pipeline"), resp) EXCEPT !.pc = "writing"]

\* sendJsonResponseAndWait: the write, then the wait for its callback; a
\* refused write calls back with the error at once, the catch block answers
\* it with handleClientError and the finally block follows
Respond(r, resp) ==
  IF r.ended \/ r.destroyed
  THEN Finish(handleClientError(sendJsonResponse(r, resp), "write after end", Undefined))
  ELSE [sendJsonResponse(r, resp) EXCEPT !.pc = "writing"]

\* the continuation of `await receiveClientRequest(...)` with its result:
\* validate, call switchInterpreter, or answer the error and close
AfterReceive(r, res) ==
  LET r0 == [r EXCEPT !.received = res]
  IN  IF res.st = "rejected" THEN Finish(handleClientError(r0, res.err, Undefined))
      ELSE LET v == validateClientRequest(res.val)
               pythonPath == GetProp(res.val, KeyPythonPath)
               shortName == GetProp(res.val, KeyShortName)
               r1 == [r0 EXCEPT !.calls = Append(@, <<pythonPath, shortName>>)]
           IN  IF ~v.isValid THEN Finish(handleClientError(r0, v.error, v.about))
               ELSE IF SwitchInputInvalid(pythonPath)
                    THEN Respond(r1, SwitchResult("invalid", pythonPath))
                    ELSE [r1 EXCEPT !.pc = "handler"]

\* resolve or reject of the promise of receiveClientRequest: the first one
\* settles it, later ones do nothing
Settle(r, res) == IF r.pc = "receiving" THEN AfterReceive(r, res) ELSE r

\* the index of the last terminator of the chunk instead of the first
IndexOfNull_last(chunk) ==
  LET hits == {i \in 1..Len(chunk) : chunk[i] = NULL_BYTE}
  IN  IF hits = {} THEN 0 ELSE CHOOSE i \in hits : \A j \in hits : j <= i

\* chunk.indexOf(NULL_BYTE), 0 when there is none
IndexOfNull(chunk) ==
  LET hits == {i \in 1..Len(chunk) : chunk[i] = NULL_BYTE}
  IN  IF hits = {} THEN 0 ELSE Min(hits)

\* the message taken from the last chunk alone, the buffer left out
MessageString_chunkOnly(messageBuffer, chunk, terminatorIndex) ==
  LET text == Utf8Decode(SubSeq(chunk, 1, terminatorIndex - 1))
  IN  IF text # <<>> /\ text[1] = BomChar THEN Tail(text) ELSE text

\* the message of a terminated chunk: the buffer and the chunk up to the
\* terminator, decoded, a leading byte order mark stripped
MessageString(messageBuffer, chunk, terminatorIndex) ==
  LET text == Utf8Decode(messageBuffer \o SubSeq(chunk, 1, terminatorIndex - 1))
  IN  IF text # <<>> /\ text[1] = BomChar THEN Tail(text) ELSE text

\* the message timer left to run after the message is complete
clearTimeout_forgotten(r) == r

\* clearTimeout(messageTimeout)
clearTimeout(r) == [r EXCEPT !.msgTimer = IF @ = "pending" THEN "cleared" ELSE @]

\* dataEventHandler with the size compared by >= instead of >
dataEventHandler_atLimit(r, chunk) ==
  LET terminatorIndex == IndexOfNull(chunk)
      totalSize == Len(r.messageBuffer) + Len(chunk)
  IN  IF terminatorIndex # 0
      THEN LET parsed == JsonParse(MessageString(r.messageBuffer, chunk, terminatorIndex))
           IN  Settle([clearTimeout(r) EXCEPT !.dataListener = FALSE],
                      IF parsed.ok THEN Resolved(parsed.val)
                      ELSE Rejected("Invalid JSON in message"))
      ELSE IF totalSize >= MAX_BUFFER_SIZE
           THEN Settle(firmlyCloseClientConnection(clearTimeout(r), "overflow"),
                       Rejected("Message size exceeds limit"))
           ELSE [r EXCEPT !.messageBuffer = @ \o chunk]

\* dataEventHandler of receiveClientRequest
dataEventHandler(r, chunk) ==
  LET terminatorIndex == IndexOfNull(chunk)
      totalSize == Len(r.messageBuffer) + Len(chunk)
  IN  IF terminatorIndex # 0
      THEN LET parsed == JsonParse(MessageString(r.messageBuffer, chunk, terminatorIndex))
           IN  Settle([clearTimeout(r) EXCEPT !.dataListener = FALSE],
                      IF parsed.ok THEN Resolved(parsed.val)
                      ELSE Rejected("Invalid JSON in message"))
      ELSE IF totalSize > MAX_BUFFER_SIZE
           THEN Settle(firmlyCloseClientConnection(clearTimeout(r), "overflow"),
                       Rejected("Message size exceeds limit"))
           ELSE [r EXCEPT !.messageBuffer = @ \o chunk]

(***************************************************************************)
(* Actions.                                                                *)
(***************************************************************************)
\* handleClientConnection that closes a connection over the ceiling before
\* it writes the rejection
handleClientConnection_closeFirst(stream) ==
  LET s == NewSocket(stream)
  IN  IF ActiveSize >= MAX_CONCURRENT_CLIENT_CONNECTIONS
      THEN sendJsonResponse(
             firmlyCloseClientConnection([s EXCEPT !.kind = "rejected"], "reject"),
             RejectionResponse)
      ELSE [s EXCEPT !.tracked = TRUE, !.listening = TRUE, !.dataListener = TRUE,
                     !.msgTimer = "pending", !.pc = "receiving"]

\* handleClientConnection with the ceiling compared by > instead of >=
handleClientConnection_offByOne(stream) ==
  LET s == NewSocket(stream)
  IN  IF ActiveSize > MAX_CONCURRENT_CLIENT_CONNECTIONS
      THEN firmlyCloseClientConnection(
             sendJsonResponse([s EXCEPT !.kind = "rejected"], RejectionResponse), "reject")
      ELSE [s EXCEPT !.tracked = TRUE, !.listening = TRUE, !.dataListener = TRUE,
                     !.msgTimer = "pending", !.pc = "receiving"]

\* the listener's "connection" event runs handleClientConnection up to its
\* first await: over the ceiling the rejection and firmlyClose, else
\* addActiveConnectionToTracker, startListeners and receiveClientRequest
handleClientConnection(stream) ==
  LET s == NewSocket(stream)
  IN  IF ActiveSize >= MAX_CONCURRENT_CLIENT_CONNECTIONS
      THEN firmlyCloseClientConnection(
             sendJsonResponse([s EXCEPT !.kind = "rejected"], RejectionResponse), "reject")
      ELSE [s EXCEPT !.tracked = TRUE, !.listening = TRUE, !.dataListener = TRUE,
                     !.msgTimer = "pending", !.pc = "receiving"]

\* a listener that goes on accepting after close() was called on it
Connect_afterClose(streams, limit) ==
  /\ server \in {"listening", "closing"}
  /\ BagCardinality(conns) < limit
  /\ \E stream \in streams :
       conns' = conns (+) SetToBag({handleClientConnection(stream)})
  /\ UNCHANGED serverVars

\* a client connects: a listener that already has maxConnections sockets
\* (set by _configureAndStartServer) closes the new one unseen, otherwise
\* handleClientConnection gets it
Connect(streams, limit) ==
  /\ server = "listening"
  /\ BagCardinality(conns) < limit
  /\ \E stream \in streams :
       conns' = conns (+) SetToBag({
         IF ServerConnections >= MAX_CONCURRENT_CLIENT_CONNECTIONS + 2
         THEN [NewSocket(stream) EXCEPT !.kind = "dropped", !.peer = "reset",
                                        !.destroyed = TRUE, !.closed = TRUE]
         ELSE handleClientConnection(stream) })
  /\ UNCHANGED serverVars

\* Send with one message buffer for all connections instead of one in the
\* closure of each receiveClientRequest: the chunk is appended to what
\* another connection has accumulated
Send_sharedBuffer(r, n) ==
  LET chunk == SubSeq(r.stream, r.sent + 1, r.sent + n)
      others == {o \in Conns : o # r /\ o.messageBuffer # <<>>}
      shared == IF others = {} THEN r.messageBuffer
                ELSE (CHOOSE o \in others : TRUE).messageBuffer
      r1 == [r EXCEPT !.sent = @ + n, !.messageBuffer = shared]
  IN  Replace(r,
        IF r.dataListener
        THEN dataEventHandler([r1 EXCEPT !.chunks = IF @ < 2 THEN @ + 1 ELSE @], chunk)
        ELSE [r1 EXCEPT !.unread = TRUE])

\* the client sends its next n bytes and the socket reads them as one
\* chunk: to dataEventHandler if it is attached, or left unread in a socket
\* that never had the listener (bytes that arrive after the listener was
\* detached are dropped and change nothing: the model leaves them unsent)
Send(r, n) ==
  LET chunk == SubSeq(r.stream, r.sent + 1, r.sent + n)
      r1 == [r EXCEPT !.sent = @ + n]
  IN  Replace(r,
        IF r.dataListener
        THEN dataEventHandler([r1 EXCEPT !.chunks = IF @ < 2 THEN @ + 1 ELSE @], chunk)
        ELSE [r1 EXCEPT !.unread = TRUE])

CanSend(r) ==
  /\ r.dataListener \/ r.kind = "rejected"
  /\ r.peer = "open" /\ ~r.destroyed /\ r.sent < Len(r.stream)

PeerSend ==
  /\ \E r \in Conns : CanSend(r) /\ \E n \in ChunkLens(r.stream, r.sent) : conns' = Send(r, n)
  /\ UNCHANGED serverVars

\* the client ends its side.  The socket (allowHalfOpen is off) reads the
\* end, ends its own side and is destroyed; a socket nobody reads that
\* holds unread bytes never sees the end.
PeerEnd ==
  /\ \E r \in Conns :
       /\ r.peer = "open" /\ ~r.destroyed
       /\ conns' = Replace(r,
            IF r.unread THEN [r EXCEPT !.peer = "ended"]
            ELSE SocketDestroy(SocketEnd([r EXCEPT !.peer = "ended"], "peer")))
  /\ UNCHANGED serverVars

\* the connection breaks (ECONNRESET, EPIPE): the socket is destroyed with
\* an error and emits "error", to handleClientError if startListeners
\* attached it, else uncaught
PeerReset ==
  /\ \E r \in Conns :
       /\ r.peer = "open" /\ ~r.destroyed
       /\ LET r1 == SocketDestroy([r EXCEPT !.peer = "reset"])
          IN  conns' = Replace(r,
                IF r1.listening THEN handleClientError(r1, "socket error", Undefined)
                ELSE [r1 EXCEPT !.uncaught = TRUE])
  /\ UNCHANGED serverVars

\* the "close" event with a listener that leaves the socket in the set
CloseEvent_noDelete ==
  /\ \E r \in Conns :
       /\ r.destroyed /\ ~r.closed
       /\ conns' = Replace(r,
            IF r.listening
            THEN [r EXCEPT !.closed = TRUE, !.listening = FALSE, !.dataListener = FALSE]
            ELSE [r EXCEPT !.closed = TRUE])
  /\ UNCHANGED serverVars

\* the "close" event of a destroyed socket: the once("close") listener of
\* startListeners removes all listeners and the socket from the set
CloseEvent ==
  /\ \E r \in Conns :
       /\ r.destroyed /\ ~r.closed
       /\ conns' = Replace(r,
            IF r.listening
            THEN [r EXCEPT !.closed = TRUE, !.listening = FALSE, !.dataListener = FALSE,
                           !.tracked = FALSE]
            ELSE [r EXCEPT !.closed = TRUE])
  /\ UNCHANGED serverVars

\* a messageTimeout callback that only logs: the connection stays open and
\* the promise pending
MessageTimeout_logOnly ==
  /\ \E r \in Conns :
       /\ r.msgTimer = "pending"
       /\ conns' = Replace(r, [r EXCEPT !.msgTimer = "fired"])
  /\ UNCHANGED serverVars

\* messageTimeout fires: firmlyClose, then reject
MessageTimeout ==
  /\ \E r \in Conns :
       /\ r.msgTimer = "pending"
       /\ conns' = Replace(r,
            Settle(firmlyCloseClientConnection([r EXCEPT !.msgTimer = "fired"], "msgTimeout"),
                   Rejected("Connection timeout - message incomplete")))
  /\ UNCHANGED serverVars

\* the idle timeout as if it were shorter than the message timeout: it
\* fires on any open socket, whatever timer is pending
IdleTimeout_beforeMessageTimeout ==
  /\ \E r \in Conns :
       /\ r.listening /\ ~r.destroyed
       /\ conns' = Replace(r, firmlyCloseClientConnection(r, "idle"))
  /\ UNCHANGED serverVars

\* the socket's "timeout" event after SOCKET_INACTIVITY_TIMEOUT without
\* traffic.  The timer restarts with every read and write, so it cannot
\* fire while messageTimeout (armed with it, and shorter) is pending, and
\* while a hard-close timer (shorter too) is pending that one comes first;
\* the wait for the write callback is short.  What is left is the wait for
\* switchInterpreter, also on a socket that graceful shutdown has ended.
IdleTimeout ==
  /\ \E r \in Conns :
       /\ r.listening /\ r.firmTimers = 0 /\ ~r.destroyed
       /\ r.msgTimer # "pending" /\ r.pc = "handler"
       /\ conns' = Replace(r, firmlyCloseClientConnection(r, "idle"))
  /\ UNCHANGED serverVars

\* a timer of firmlyCloseClientConnection that fires and destroys nothing
FirmTimeout_noDestroy ==
  /\ \E r \in Conns :
       /\ r.firmTimers > 0
       /\ conns' = Replace(r, [r EXCEPT !.firmTimers = @ - 1])
  /\ UNCHANGED serverVars

\* a timer of firmlyCloseClientConnection fires
FirmTimeout ==
  /\ \E r \in Conns :
       /\ r.firmTimers > 0
       /\ LET r1 == [r EXCEPT !.firmTimers = @ - 1]
          IN  conns' = Replace(r, IF r1.destroyed THEN r1 ELSE SocketDestroy(r1))
  /\ UNCHANGED serverVars

\* switchInterpreter returns; handleClientConnection sends the result
HandlerReturns ==
  /\ \E r \in Conns :
       /\ r.pc = "handler"
       /\ \E outcome \in HandlerOutcomes :
            conns' = Replace(r, Respond(r, SwitchResult(outcome, r.calls[Len(r.calls)][1])))
  /\ UNCHANGED serverVars

\* the write callback with the catch block run after every write
WriteCallback_alwaysCatch ==
  /\ \E r \in Conns :
       /\ r.pc = "writing"
       /\ conns' = Replace(r, Finish(handleClientError(r, "write failed", Undefined)))
  /\ UNCHANGED serverVars

\* the callback of the write of sendJsonResponseAndWait: with an error if
\* the connection broke meanwhile (then the catch block runs), else without
WriteCallback ==
  /\ \E r \in Conns :
       /\ r.pc = "writing"
       /\ conns' = Replace(r,
            IF r.peer = "reset" THEN Finish(handleClientError(r, "write failed", Undefined))
            ELSE Finish(r))
  /\ UNCHANGED serverVars

\* the bag of f[r] for the r of bag B
RECURSIVE SumOver(_, _)
SumOver(S, B) == IF S = {} THEN 0 ELSE LET x == CHOOSE y \in S : TRUE
                                       IN  B[x] + SumOver(S \ {x}, B)
MapBag(f, B) ==
  [q \in {f[r] : r \in BagToSet(B)} |-> SumOver({r \in BagToSet(B) : f[r] = q}, B)]

\* _deleteStaleSocketFile: unlink the file if it exists, throw if the unlink
\* fails
deleteStaleSocketFile(exists, removable) ==
  [exists |-> exists /\ ~removable, threw |-> exists /\ ~removable]

\* gracefullyShutdownServer with resolve() called beside server.close()
\* instead of inside its callback
gracefullyShutdownServer_resolveAtOnce ==
  /\ server = "listening"
  /\ conns' = MapBag([r \in Conns |-> IF r.tracked THEN SocketEnd(r, "shutdown") ELSE r], conns)
  /\ server' = "closing"
  /\ shutdownPromise' = "resolved"
  /\ \E unlinked \in BOOLEAN : socketFile' = (socketFile /\ ~unlinked)
  /\ serverRef' = 0
  /\ shutdownCalls' = [shutdownCalls EXCEPT ![gen] = @ + 1]
  /\ UNCHANGED <<gen, closing, activation, foreign, requests, deactivations, unitVars>>

\* gracefullyShutdownServer: end() every active connection, close the
\* server.  Closing the listening handle may already unlink the socket file
\* (the platform does that for a path it bound itself).
gracefullyShutdownServer ==
  /\ server = "listening"
  /\ conns' = MapBag([r \in Conns |-> IF r.tracked THEN SocketEnd(r, "shutdown") ELSE r], conns)
  /\ server' = "closing"
  /\ shutdownPromise' = "pending"
  /\ \E unlinked \in BOOLEAN : socketFile' = (socketFile /\ ~unlinked)
  /\ serverRef' = 0
  /\ shutdownCalls' = [shutdownCalls EXCEPT ![gen] = @ + 1]
  /\ UNCHANGED <<gen, closing, activation, foreign, requests, deactivations, unitVars>>

\* the callback of server.close(), once all sockets of the server are gone:
\* _deleteStaleSocketFile, then resolve (not reached if the former throws)
ServerCloseCallback ==
  /\ server = "closing"
  /\ ServerConnections = 0
  /\ server' = "closed"
  /\ LET deleted == deleteStaleSocketFile(socketFile, ~foreign)
     IN  /\ socketFile' = deleted.exists
         /\ shutdownPromise' = IF deleted.threw THEN "pending" ELSE "resolved"
  /\ UNCHANGED <<conns, gen, closing, activation, foreign, requests>>
  /\ UNCHANGED <<extVars, unitVars>>

\* the callback of server.close() of an earlier instance, which runs when
\* the last of that instance's sockets is gone: it unlinks whatever file is
\* at the path
EarlierCloseCallback ==
  /\ \E g \in closing :
       /\ ConnectionsOf(g) = 0
       /\ closing' = closing \ {g}
  /\ socketFile' = deleteStaleSocketFile(socketFile, ~foreign).exists
  /\ UNCHANGED <<conns, server, shutdownPromise, gen, activation, foreign, requests>>
  /\ UNCHANGED <<extVars, unitVars>>

\* socketServer.listen(socketPath): binds the path, which creates the socket
\* file; fails (an "error" event, logged) if a file is there already
listen(exists) == IF exists THEN "error" ELSE "listening"

\* startUnixSocketServer that binds without removing the file at the path
startUnixSocketServer_noDelete(exists, removable) ==
  [threw |-> FALSE, server |-> listen(exists)]

\* startUnixSocketServer: _deleteStaleSocketFile, createServer,
\* _configureAndStartServer
startUnixSocketServer(exists, removable) ==
  LET deleted == deleteStaleSocketFile(exists, removable)
  IN  IF deleted.threw THEN [threw |-> TRUE, server |-> "none"]
      ELSE [threw |-> FALSE, server |-> listen(deleted.exists)]

\* activate of the extension, called while its variable `server` is null
\* (at first, or after deactivate, which does not wait for the shutdown):
\* startUnixSocketServer, a failure caught and shown to the user
activate ==
  /\ server \in {"unstarted", "closing", "closed"}
  /\ gen < MaxStarts
  /\ LET started == startUnixSocketServer(socketFile, ~foreign)
     IN  IF started.threw
         THEN /\ activation' = "failed"
              /\ UNCHANGED <<server, socketFile, shutdownPromise, gen, closing>>
              /\ UNCHANGED <<serverRef, shutdownCalls>>
         ELSE /\ activation' = "ok"
              /\ server' = started.server
              /\ socketFile' = TRUE
              /\ shutdownPromise' = "none"
              /\ gen' = gen + 1
              /\ closing' = IF server = "closing" THEN closing \cup {gen} ELSE closing
              /\ serverRef' = gen + 1
              /\ shutdownCalls' = Append(shutdownCalls, 0)
  /\ UNCHANGED <<conns, foreign, requests, deactivations, unitVars>>

\* deactivate without its finally block: the reference is kept
deactivate_keepReference ==
  /\ deactivations < MaxDeactivations
  /\ deactivations' = deactivations + 1
  /\ IF serverRef # 0
     THEN /\ conns' = MapBag([r \in Conns |-> IF r.tracked THEN SocketEnd(r, "shutdown") ELSE r],
                             conns)
          /\ server' = "closing"
          /\ shutdownPromise' = "pending"
          /\ \E unlinked \in BOOLEAN : socketFile' = (socketFile /\ ~unlinked)
          /\ shutdownCalls' = [shutdownCalls EXCEPT ![serverRef] = @ + 1]
          /\ UNCHANGED serverRef
     ELSE UNCHANGED <<conns, server, socketFile, shutdownPromise, serverRef, shutdownCalls>>
  /\ UNCHANGED <<gen, closing, activation, foreign, requests, unitVars>>

\* deactivate of the extension, called by the host and by the disposable
\* that activate registered: if the reference is set, gracefullyShutdownServer
\* on it (not awaited) and the reference set to null; otherwise nothing
deactivate ==
  /\ deactivations < MaxDeactivations
  /\ deactivations' = deactivations + 1
  /\ IF serverRef # 0
     THEN /\ conns' = MapBag([r \in Conns |-> IF r.tracked THEN SocketEnd(r, "shutdown") ELSE r],
                             conns)
          /\ server' = "closing"
          /\ shutdownPromise' = "pending"
          /\ \E unlinked \in BOOLEAN : socketFile' = (socketFile /\ ~unlinked)
          /\ shutdownCalls' = [shutdownCalls EXCEPT ![serverRef] = @ + 1]
          /\ serverRef' = 0
     ELSE UNCHANGED <<conns, server, socketFile, shutdownPromise, serverRef, shutdownCalls>>
  /\ UNCHANGED <<gen, closing, activation, foreign, requests, unitVars>>

(***************************************************************************)
(* The HTTP transport (extension.js).  A request is its method, its URL    *)
(* and its body, which arrives whole; pc is reading (the handler waits for *)
(* the end of the body), api (it waits for the Python API) or done.        *)
(***************************************************************************)
HTTP_OK == 200
HTTP_BAD_REQUEST == 400
HTTP_NOT_FOUND == 404
HTTP_SERVER_ERROR == 500

HttpMethods == {"POST", "GET"}
HttpUrls == {"/set-interpreter", "/wrong-endpoint"}

PythonPathBody(v) == JsonStringify(JObj(<< <<KeyPythonPath, v>> >>))

\* nothing, "{", null, {} and {"pythonPath": v} for several v
HttpBodies ==
  { <<>>, <<LBrace>>, TextNull, JsonStringify(JObj(<<>>)) }
  \cup { PythonPathBody(v) :
           v \in {JStr(PathP), JStr(<<>>), JStr(Blank), JNum(Number12345), JFalse, JNull} }

\* what the Python API does with a path: it knows it and switches, it does
\* not know it, it throws
PythonApiOutcomes == {"switched", "notKnown", "apiError"}

\* sendJsonResponse(res, statusCode, data): writeHead and end
HttpSendJsonResponse(q, statusCode, success) ==
  [q EXCEPT !.responses = Append(@, [status |-> statusCode, success |-> success]),
            !.pc = "done"]

isValidRequest(parsedBody) ==
  Truthy(parsedBody) /\ Truthy(GetProp(parsedBody, KeyPythonPath))

\* isValidPathString without the typeof test
isValidPathString_noTypeof(path) == path.t # "string" \/ ~TrimIsEmpty(path.s)

isValidPathString(path) == path.t = "string" /\ ~TrimIsEmpty(path.s)

\* the callback of createServer
requestListener(method, url, body) ==
  LET q == [method |-> method, url |-> url, body |-> body, pc |-> "reading",
            responses |-> <<>>, apiCalls |-> 0]
  IN  IF method = "POST" /\ url = "/set-interpreter" THEN q
      ELSE HttpSendJsonResponse(q, HTTP_NOT_FOUND, FALSE)

\* the "end" listener of handleSetInterpreterRequest up to its first await
\* of the Python API; an exception of JSON.parse goes to handleGeneralError
handleSetInterpreterRequest(q) ==
  LET parsedBody == JsonParse(q.body)
  IN  IF ~parsedBody.ok THEN HttpSendJsonResponse(q, HTTP_SERVER_ERROR, FALSE)
      ELSE IF ~isValidRequest(parsedBody.val)
      THEN HttpSendJsonResponse(q, HTTP_BAD_REQUEST, FALSE)
      ELSE IF ~isValidPathString(GetProp(parsedBody.val, KeyPythonPath))
      THEN HttpSendJsonResponse(q, HTTP_BAD_REQUEST, FALSE)
      ELSE [q EXCEPT !.pc = "api", !.apiCalls = @ + 1]

\* a request arrives
HttpRequest ==
  /\ Len(requests) < MaxRequests
  /\ \E method \in HttpMethods, url \in HttpUrls, body \in HttpBodies :
       requests' = Append(requests, requestListener(method, url, body))
  /\ UNCHANGED <<conns, server, socketFile, shutdownPromise, gen, closing, activation, foreign>>
  /\ UNCHANGED <<extVars, unitVars>>

\* the body of a request has arrived: its "end" event
HttpRequestEnd ==
  /\ \E i \in 1..Len(requests) :
       /\ requests[i].pc = "reading"
       /\ requests' = [requests EXCEPT ![i] = handleSetInterpreterRequest(@)]
  /\ UNCHANGED <<conns, server, socketFile, shutdownPromise, gen, closing, activation, foreign>>
  /\ UNCHANGED <<extVars, unitVars>>

\* the rest of handleSetInterpreterRequest: the environment is switched
\* (200), is not among the known ones (400), or the API throws
\* (handlePythonApiError, 500)
PythonApiSettles ==
  /\ \E i \in 1..Len(requests), outcome \in PythonApiOutcomes :
       /\ requests[i].pc = "api"
       /\ requests' =
            [requests EXCEPT ![i] =
               CASE outcome = "switched" -> HttpSendJsonResponse(@, HTTP_OK, TRUE)
                 [] outcome = "notKnown" -> HttpSendJsonResponse(@, HTTP_BAD_REQUEST, FALSE)
                 [] OTHER -> HttpSendJsonResponse(@, HTTP_SERVER_ERROR, FALSE)]
  /\ UNCHANGED <<conns, server, socketFile, shutdownPromise, gen, closing, activation, foreign>>
  /\ UNCHANGED <<extVars, unitVars>>

(***************************************************************************)
(* promisifyCallbackFunction (unixSocketServer/utils.js) and the           *)
(* connection handler of serverLifecycle.js that awaits it.  events is the *)
(* history of what happened to the promise, in order: a callback with its  *)
(* result, the exception of the processor, the timeout.                    *)
(***************************************************************************)
\* everything but promisified
restOfPromisified == <<conns, coreVars, switching, lookup, retrying, ring>>

CallbackResults == {"switched", "failed"}

SeqsUpTo(S, n) == UNION { [1..k -> S] : k \in 0..n }

\* resolve that settles the promise again
promiseResolve_again(p, v) == [p EXCEPT !.state = "resolved", !.value = v]

\* resolve and reject of a promise: the first one settles it
promiseResolve(p, v) ==
  IF p.state = "pending" THEN [p EXCEPT !.state = "resolved", !.value = v] ELSE p

promiseReject(p, e) ==
  IF p.state = "pending" THEN [p EXCEPT !.state = "rejected", !.value = e] ELSE p

clearCallbackTimeout(p) ==
  [p EXCEPT !.callbackTimeout = IF @ = "pending" THEN "cleared" ELSE @]

\* the callback handed to the processor
sendResponseCallback(p, result) ==
  promiseResolve(clearCallbackTimeout([p EXCEPT !.events = Append(@, <<"callback", result>>)]),
                 result)

RECURSIVE CallbacksInTurn(_, _)
CallbacksInTurn(p, results) ==
  IF results = <<>> THEN p
  ELSE CallbacksInTurn(sendResponseCallback(p, Head(results)), Tail(results))

\* promisifyCallbackFunction: the timer is armed and the processor called;
\* it calls back at once with the results of now, then throws or returns,
\* and will call back with the results of later
promisifyCallbackFunction(now, throws, later) ==
  LET p0 == [NotCalled EXCEPT !.state = "pending", !.callbackTimeout = "pending",
                              !.later = later]
      p1 == CallbacksInTurn(p0, now)
  IN  IF throws
      THEN promiseReject(clearCallbackTimeout([p1 EXCEPT !.events = Append(@, <<"threw", "">>)]),
                         "processor threw")
      ELSE p1

\* the connection handler has the message and calls the processor
ProcessMessage ==
  /\ promisified.state = "none"
  /\ \E now \in SeqsUpTo(CallbackResults, MaxCallbacks), throws \in BOOLEAN,
        later \in SeqsUpTo(CallbackResults, MaxCallbacks) :
       promisified' = promisifyCallbackFunction(now, throws, later)
  /\ UNCHANGED restOfPromisified

\* the processor calls back after it has returned
LateCallback ==
  /\ promisified.later # <<>>
  /\ promisified' =
       sendResponseCallback([promisified EXCEPT !.later = Tail(@)], Head(promisified.later))
  /\ UNCHANGED restOfPromisified

\* callbackTimeout fires
CallbackTimeout ==
  /\ promisified.callbackTimeout = "pending"
  /\ promisified' =
       promiseReject([promisified EXCEPT !.callbackTimeout = "fired",
                                         !.events = Append(@, <<"timeout", "">>)],
                     "Message processing timeout")
  /\ UNCHANGED restOfPromisified

\* the await of the connection handler continues: the response is written
\* and the connection ended, or handleClientError writes the error
AwaitContinues ==
  /\ promisified.state \in {"resolved", "rejected"}
  /\ ~promisified.continued
  /\ promisified' =
       [promisified EXCEPT !.continued = TRUE,
                           !.written = Append(@, <<promisified.state, promisified.value>>)]
  /\ UNCHANGED restOfPromisified

(***************************************************************************)
(* switchInterpreter (handlers/interpreterHandler.js) step by step.  pc is *)
(* the number of the call it waits for, in the order of SwitchSteps;       *)
(* thrown is <<>> or the step that threw with the kind of value thrown.    *)
(***************************************************************************)
\* everything but switching
restOfSwitching == <<conns, coreVars, promisified, lookup, retrying, ring>>

\* the calls inside the try block, in order
SwitchSteps ==
  << "resolveAbsolutePath", "getPythonApi", "refreshPythonEnvironments",
     "resolvePythonEnvironment", "switchPythonEnvironment",
     "refreshPythonEnvironments", "resolvePythonEnvironment" >>

\* what is thrown: an Error, or a value without a message (a string)
ThrownKinds == {"Error", "string"}

\* the arguments switchInterpreter is called with
SwitchPaths == {JStr(PathP), JStr(PathQ), JStr(<<>>), JStr(Blank), JNum(Number12345), Undefined}
SwitchNames == {JStr(PathQ), Undefined}

\* a catch block that throws the error on
switchInterpreterCatch_rethrow(s, step, kind) ==
  [s EXCEPT !.thrown = <<step, kind>>, !.settled = "rejected"]

\* the catch block of switchInterpreter: the error shown and returned
switchInterpreterCatch(s, step, kind) ==
  [s EXCEPT !.thrown = <<step, kind>>, !.settled = "fulfilled", !.success = FALSE,
            !.error = "Failed to get Python interpreter"]

\* switchInterpreter is called: the check of pythonPath, then the try block
\* up to its first call
SwitchCalled ==
  /\ switching.settled = "none"
  /\ \E pythonPath \in SwitchPaths, shortName \in SwitchNames :
       LET s == [switching EXCEPT !.pythonPath = pythonPath, !.shortName = shortName]
       IN  switching' =
             IF SwitchInputInvalid(pythonPath)
             THEN [s EXCEPT !.settled = "fulfilled", !.success = FALSE,
                            !.error = "pythonPath must be a non-empty string"]
             ELSE [s EXCEPT !.settled = "pending", !.pc = 1]
  /\ UNCHANGED restOfSwitching

\* the call that switchInterpreter waits for returns or is fulfilled:
\* the next call, or after the last one the return, success if the
\* environment was resolved
SwitchStepReturns ==
  /\ switching.settled = "pending"
  /\ \E found \in {"defined", "undefined"} :
       LET s == IF SwitchSteps[switching.pc] = "resolvePythonEnvironment"
                THEN [switching EXCEPT !.resolved = found] ELSE switching
       IN  switching' =
             IF s.pc < Len(SwitchSteps) THEN [s EXCEPT !.pc = @ + 1]
             ELSE [s EXCEPT !.pc = @ + 1, !.settled = "fulfilled",
                            !.success = (s.resolved = "defined"),
                            !.error = ""]
  /\ UNCHANGED restOfSwitching

\* the call that switchInterpreter waits for throws or is rejected
SwitchStepThrows ==
  /\ switching.settled = "pending"
  /\ \E kind \in ThrownKinds :
       switching' = switchInterpreterCatch(switching, switching.pc, kind)
  /\ UNCHANGED restOfSwitching

(***************************************************************************)
(* ensurePythonExtension and getPythonExtensionWithRetry                   *)
(* (python/pythonExtension.js).  pc is delay while the loop waits between  *)
(* two lookups, activating while activate() of the extension is awaited,   *)
(* returned or threw at the end.                                           *)
(***************************************************************************)
\* everything but lookup
restOfLookup == <<conns, coreVars, promisified, switching, retrying, ring>>

\* the condition of the loop with <= for <
retryCondition_inclusive(found, retryCount, maxRetries) == ~found /\ retryCount <= maxRetries

\* the condition of the while loop of getPythonExtensionWithRetry
retryCondition(found, retryCount, maxRetries) == ~found /\ retryCount < maxRetries

\* ensurePythonExtension once getPythonExtensionWithRetry has returned
ensureAfterLookup(s) ==
  IF ~s.found
  THEN [s EXCEPT !.pc = "threw", !.error = "Python extension not found after multiple attempts"]
  ELSE IF ~s.isActive THEN [s EXCEPT !.pc = "activating"]
  ELSE [s EXCEPT !.pc = "returned"]

\* vscode.extensions.getExtension has answered: the loop goes on with a
\* delay, or getPythonExtensionWithRetry returns
afterGetExtension(s) ==
  IF retryCondition(s.found, s.retryCount, s.maxRetries) THEN [s EXCEPT !.pc = "delay"]
  ELSE ensureAfterLookup(s)

\* ensurePythonExtension is called: the first lookup
EnsureCalled ==
  /\ lookup.pc = "idle"
  /\ \E maxRetries \in 0..MaxRetries, found \in BOOLEAN, isActive \in BOOLEAN :
       /\ isActive => found
       /\ lookup' = afterGetExtension([lookup EXCEPT !.maxRetries = maxRetries, !.lookups = 1,
                                                     !.found = found, !.isActive = isActive])
  /\ UNCHANGED restOfLookup

\* the delay of the loop is over: the next lookup, retryCount++
DelayElapsed ==
  /\ lookup.pc = "delay"
  /\ \E found \in BOOLEAN, isActive \in BOOLEAN :
       /\ isActive => found
       /\ lookup' = afterGetExtension([lookup EXCEPT !.lookups = @ + 1, !.retryCount = @ + 1,
                                                     !.found = found, !.isActive = isActive])
  /\ UNCHANGED restOfLookup

\* activate() of the extension is fulfilled or rejected
ActivateSettles ==
  /\ lookup.pc = "activating"
  /\ \E ok \in BOOLEAN :
       lookup' = IF ok THEN [lookup EXCEPT !.pc = "returned", !.isActive = TRUE]
                 ELSE [lookup EXCEPT !.pc = "threw",
                                     !.error = "Failed to activate Python extension"]
  /\ UNCHANGED restOfLookup

(***************************************************************************)
(* executeWithRetry (utils/http.js).  calls holds the attempt numbers      *)
(* asyncFunction was called with, errors what the attempts were rejected   *)
(* with, onRetryCalls the arguments of the calls of onRetry; refused says  *)
(* that shouldRetry returned false.                                        *)
(***************************************************************************)
\* everything but retrying
restOfRetrying == <<conns, coreVars, promisified, switching, lookup, ring>>

AttemptValues == {"value"}
AttemptErrors == {"busy", "gone"}

\* the test of the catch block with > for >=
giveUp_late(attempt, maxAttempts, retry) == attempt > maxAttempts \/ ~retry

\* the test of the catch block: no retry after the last attempt or when
\* shouldRetry(error) is false
giveUp(attempt, maxAttempts, retry) == attempt >= maxAttempts \/ ~retry

\* the head of the for loop: the next attempt, or past the loop the
\* `throw lastError`
nextAttempt(s, attempt) ==
  IF attempt <= s.maxAttempts
  THEN [s EXCEPT !.pc = "attempting", !.attempt = attempt, !.calls = Append(@, attempt)]
  ELSE [s EXCEPT !.pc = "threw", !.result = s.errors[Len(s.errors)]]

\* executeWithRetry is called: the first attempt
ExecuteCalled ==
  /\ retrying.pc = "idle"
  /\ \E maxAttempts \in 1..MaxAttempts :
       retrying' = nextAttempt([retrying EXCEPT !.maxAttempts = maxAttempts], 1)
  /\ UNCHANGED restOfRetrying

\* asyncFunction(attempt) is fulfilled: its value is returned
AttemptFulfilled ==
  /\ retrying.pc = "attempting"
  /\ \E value \in AttemptValues :
       retrying' = [retrying EXCEPT !.pc = "returned", !.result = value]
  /\ UNCHANGED restOfRetrying

\* asyncFunction(attempt) is rejected: the catch block
AttemptRejected ==
  /\ retrying.pc = "attempting"
  /\ \E error \in AttemptErrors, retry \in BOOLEAN :
       LET s == [retrying EXCEPT !.errors = Append(@, error)]
       IN  retrying' =
             IF giveUp(s.attempt, s.maxAttempts, retry)
             THEN [s EXCEPT !.pc = "threw", !.result = error, !.refused = ~retry]
             ELSE [s EXCEPT !.pc = "delay",
                            !.onRetryCalls = Append(@, <<s.attempt, error>>)]
  /\ UNCHANGED restOfRetrying

\* the delay before the next attempt is over
RetryDelayOver ==
  /\ retrying.pc = "delay"
  /\ retrying' = nextAttempt(retrying, retrying.attempt + 1)
  /\ UNCHANGED restOfRetrying

(***************************************************************************)
(* CircularBuffer (CircularBuffer.js).  buffer[i + 1] is the byte at       *)
(* offset i; last is the last call made on the buffer, its argument and    *)
(* what it returned (null says that a read returned null and no message).  *)
(***************************************************************************)
\* everything but ring
restOfRing == <<conns, coreVars, promisified, switching, lookup, retrying>>

\* the bytes written: the null byte and one other
BufferBytes == {NULL_BYTE, 1}

\* chunk.copy(target, targetStart, sourceStart, sourceEnd)
bufferCopy(target, source, targetStart, sourceStart, sourceEnd) ==
  [ i \in 1..Len(target) |->
      IF i - 1 >= targetStart /\ i - 1 < targetStart + (sourceEnd - sourceStart)
      THEN source[sourceStart + (i - 1 - targetStart) + 1]
      ELSE target[i] ]

\* the constructor: a zero-filled buffer, nothing to read
newCircularBuffer(capacity) ==
  [ capacity |-> capacity, buffer |-> [i \in 1..capacity |-> 0], head |-> 0, tail |-> 0,
    available |-> 0, last |-> [op |-> "new"] ]

\* the overflow test of write with >= for >
wouldOverflow_whenFull(s, chunk) == Len(chunk) >= s.capacity - s.available

\* the overflow test of write
wouldOverflow(s, chunk) == Len(chunk) > s.capacity - s.available

\* the advance of tail without the modulo
advanceTail_noWrap(tail, length, capacity) == tail + length

\* the advance of tail at the end of write
advanceTail(tail, length, capacity) == (tail + length) % capacity

\* write(chunk)
write(s, chunk) ==
  IF wouldOverflow(s, chunk)
  THEN [s EXCEPT !.last = [op |-> "write", chunk |-> chunk, returned |-> FALSE]]
  ELSE LET remainingBufferSpace == s.capacity - s.tail
           firstWrite == IF Len(chunk) < remainingBufferSpace THEN Len(chunk)
                         ELSE remainingBufferSpace
           first == bufferCopy(s.buffer, chunk, s.tail, 0, firstWrite)
           both == IF firstWrite < Len(chunk)
                   THEN bufferCopy(first, chunk, 0, firstWrite, Len(chunk))
                   ELSE first
       IN  [s EXCEPT !.buffer = both,
                     !.tail = advanceTail(s.tail, Len(chunk), s.capacity),
                     !.available = @ + Len(chunk),
                     !.last = [op |-> "write", chunk |-> chunk, returned |-> TRUE]]

\* the search loop of readUntilDelimiter: the position of the first
\* delimiter among the available bytes, -1 if there is none
RECURSIVE findDelimiter(_, _, _, _)
findDelimiter(s, delimiter, searchPos, bytesSearched) ==
  IF bytesSearched < s.available
  THEN IF s.buffer[searchPos + 1] = delimiter
       THEN searchPos
       ELSE findDelimiter(s, delimiter, (searchPos + 1) % s.capacity, bytesSearched + 1)
  ELSE -1

\* readUntilDelimiter(delimiter)
readUntilDelimiter(s, delimiter) ==
  LET delimiterPos == findDelimiter(s, delimiter, s.head, 0)
  IN  IF delimiterPos = -1
      THEN [s EXCEPT !.last = [op |-> "read", delimiter |-> delimiter, null |-> TRUE,
                              returned |-> <<>>]]
      ELSE LET messageLength == IF delimiterPos >= s.head THEN delimiterPos - s.head
                                ELSE s.capacity - s.head + delimiterPos
               firstRead == IF messageLength < s.capacity - s.head THEN messageLength
                            ELSE s.capacity - s.head
               message == [ k \in 1..messageLength |->
                              IF k <= firstRead THEN s.buffer[s.head + k]
                              ELSE s.buffer[k - firstRead] ]
           IN  [s EXCEPT !.head = (delimiterPos + 1) % s.capacity,
                         !.available = @ - (messageLength + 1),
                         !.last = [op |-> "read", delimiter |-> delimiter, null |-> FALSE,
                                   returned |-> message]]

\* new CircularBuffer(capacity)
BufferConstructed ==
  /\ ring.capacity = 0
  /\ \E capacity \in 1..MaxCapacity : ring' = newCircularBuffer(capacity)
  /\ UNCHANGED restOfRing

\* a call of write
BufferWrite ==
  /\ ring.capacity >= 1
  /\ \E chunk \in SeqsUpTo(BufferBytes, MaxChunkLen) : ring' = write(ring, chunk)
  /\ UNCHANGED restOfRing

\* a call of readUntilDelimiter
BufferRead ==
  /\ ring.capacity >= 1
  /\ \E delimiter \in BufferBytes : ring' = readUntilDelimiter(ring, delimiter)
  /\ UNCHANGED restOfRing

\* startUnixSocketServer has returned: the server listens on its path
Init ==
  /\ conns = EmptyBag
  /\ server = "listening"
  /\ socketFile = TRUE
  /\ shutdownPromise = "none"
  /\ gen = 1
  /\ closing = {}
  /\ activation = "ok"
  /\ foreign = FALSE
  /\ requests = <<>>
  /\ serverRef = 1
  /\ shutdownCalls = <<0>>
  /\ deactivations = 0
  /\ promisified = NotCalled
  /\ switching = NotSwitching
  /\ lookup = NotEnsured
  /\ retrying = NotExecuting
  /\ ring = NotConstructed

\* one connection, every stream, every split
Accept == Connect(Streams, 1)

Next ==
  \/ Accept
  \/ PeerSend
  \/ PeerEnd
  \/ PeerReset
  \/ CloseEvent
  \/ MessageTimeout
  \/ IdleTimeout
  \/ FirmTimeout
  \/ HandlerReturns
  \/ WriteCallback
  \/ gracefullyShutdownServer
  \/ ServerCloseCallback

Spec == Init /\ [][Next]_vars

\* the same with time passing: an armed timer fires, a write completes, a
\* destroyed socket emits "close" and a drained server runs the callback of
\* close(); nothing is assumed of the peer or of the handler
SpecFair ==
  /\ Spec
  /\ WF_vars(MessageTimeout) /\ WF_vars(IdleTimeout) /\ WF_vars(FirmTimeout)
  /\ WF_vars(WriteCallback) /\ WF_vars(CloseEvent) /\ WF_vars(ServerCloseCallback)

\* many silent clients that come and go: the admission ceiling
AcceptMany == Connect(SilentStreams, MaxClients)

NextMany ==
  \/ AcceptMany
  \/ PeerEnd
  \/ CloseEvent
  \/ MessageTimeout
  \/ FirmTimeout

SpecMany == Init /\ [][NextMany]_vars

\* more silent clients than the listener takes, none of which leaves
AcceptFlood == Connect(SilentStreams, MaxFlood)

NextFlood ==
  \/ AcceptFlood
  \/ CloseEvent
  \/ MessageTimeout
  \/ FirmTimeout

SpecFlood == Init /\ [][NextFlood]_vars

\* the same clients with time passing: a timer that is armed fires, and a
\* destroyed socket emits its "close" event
SpecFloodFair ==
  /\ SpecFlood
  /\ WF_vars(MessageTimeout) /\ WF_vars(FirmTimeout) /\ WF_vars(CloseEvent)

\* a few silent clients and every way a connection closes: the peer ends
\* or breaks it, the message timeout and the hard-close timer
AcceptClosers == Connect(SilentStreams, MaxClosers)

NextClose ==
  \/ AcceptClosers
  \/ PeerEnd
  \/ PeerReset
  \/ CloseEvent
  \/ MessageTimeout
  \/ FirmTimeout

SpecClose == Init /\ [][NextClose]_vars

\* silent clients, one more than the ceiling, whose connections break
AcceptBroken == Connect(SilentStreams, MaxBroken)

NextBroken ==
  \/ AcceptBroken
  \/ PeerReset
  \/ CloseEvent
  \/ MessageTimeout
  \/ FirmTimeout

SpecBroken == Init /\ [][NextBroken]_vars

\* the extension from its load: the socket path may hold a file left by an
\* earlier process or by somebody else; servers are started and shut down
\* in turn while a few silent clients connect and stay
InitLife ==
  /\ conns = EmptyBag
  /\ server = "unstarted"
  /\ socketFile \in BOOLEAN
  /\ foreign \in BOOLEAN
  /\ foreign => socketFile
  /\ shutdownPromise = "none"
  /\ gen = 0
  /\ closing = {}
  /\ activation = "none"
  /\ requests = <<>>
  /\ serverRef = 0
  /\ shutdownCalls = <<>>
  /\ deactivations = 0
  /\ promisified = NotCalled
  /\ switching = NotSwitching
  /\ lookup = NotEnsured
  /\ retrying = NotExecuting
  /\ ring = NotConstructed

AcceptLife == Connect(SilentStreams, MaxLife)

NextLife ==
  \/ activate
  \/ AcceptLife
  \/ CloseEvent
  \/ MessageTimeout
  \/ FirmTimeout
  \/ gracefullyShutdownServer
  \/ ServerCloseCallback
  \/ EarlierCloseCallback

SpecLife == InitLife /\ [][NextLife]_vars

\* two clients at a time, each with a request of its own that it sends in
\* pieces while the other does the same
LongFrameP == Frame(SetInterpreterRequest(JStr(PathP \o Filler(MaxFullSplitLen))))
LongFrameQ == Frame(SetInterpreterRequest(JStr(PathQ \o Filler(MaxFullSplitLen))))
PairStreams == {LongFrameP, LongFrameQ}

AcceptPair == Connect(PairStreams, MaxPair)

NextPair ==
  \/ AcceptPair
  \/ PeerSend
  \/ HandlerReturns
  \/ WriteCallback
  \/ MessageTimeout

SpecPair == Init /\ [][NextPair]_vars

\* valid requests whose strings hold what an encoding can get wrong: a
\* letter, the quote, the backslash, U+0000, a line feed, a character of
\* two bytes (U+00E9) and one of three (U+FEFF)
CodecChars == {97, Quote, Backslash, 0, 10, 233, BomChar}
CodecPaths ==
  {s \in UNION {[1..k -> CodecChars] : k \in 1..MaxPathLen} : ~TrimIsEmpty(s)}
CodecRequests ==
  {SetInterpreterRequest(JStr(s)) : s \in CodecPaths}
    \cup {JObj(<< <<KeyAction, JStr(SetInterpreter)>>, <<KeyPythonPath, JStr(PathP)>>,
                  <<KeyShortName, JStr(<<c>>)>> >>) : c \in CodecChars}

\* the frame of every such request, and the requests of each frame
CodecFrames == {Frame(R) : R \in CodecRequests}
CodecSource == [f \in CodecFrames |-> {R \in CodecRequests : Frame(R) = f}]

\* one client that sends the frame of one of them, in any pieces
AcceptCodec == Connect(CodecFrames, 1)

NextCodec ==
  \/ AcceptCodec
  \/ PeerSend

SpecCodec == Init /\ [][NextCodec]_vars

\* the HTTP transport alone: requests with every method, URL and body
NextHttp ==
  \/ HttpRequest
  \/ HttpRequestEnd
  \/ PythonApiSettles

SpecHttp == Init /\ [][NextHttp]_vars

\* one client at a time that sends a request, part of one or nothing and
\* may break off at any moment, the timers and continuations running on
AfterCloseStreams == { ValidFrameP, <<LBrace, Quote, LetterX>>, <<>> }

AcceptAfterClose == Connect(AfterCloseStreams, 1)

NextAfterClose ==
  \/ AcceptAfterClose
  \/ PeerSend
  \/ PeerEnd
  \/ PeerReset
  \/ CloseEvent
  \/ MessageTimeout
  \/ IdleTimeout
  \/ FirmTimeout
  \/ HandlerReturns
  \/ WriteCallback

SpecAfterClose == Init /\ [][NextAfterClose]_vars

\* the extension activated and deactivated by its host, deactivate called
\* any number of times, while a few silent clients connect and stay
NextDeactivate ==
  \/ activate
  \/ deactivate
  \/ AcceptLife
  \/ CloseEvent
  \/ MessageTimeout
  \/ FirmTimeout
  \/ ServerCloseCallback
  \/ EarlierCloseCallback

SpecDeactivate == InitLife /\ [][NextDeactivate]_vars

\* one message handed to a processor that calls back any number of times,
\* at once or later, and may throw
NextPromisify ==
  \/ ProcessMessage
  \/ LateCallback
  \/ CallbackTimeout
  \/ AwaitContinues

SpecPromisify == Init /\ [][NextPromisify]_vars

\* switchInterpreter with every argument and every outcome of its calls
NextSwitch ==
  \/ SwitchCalled
  \/ SwitchStepReturns
  \/ SwitchStepThrows

SpecSwitch == Init /\ [][NextSwitch]_vars

\* ensurePythonExtension with every maxRetries up to MaxRetries and every
\* answer of the lookups
NextEnsure ==
  \/ EnsureCalled
  \/ DelayElapsed
  \/ ActivateSettles

SpecEnsure == Init /\ [][NextEnsure]_vars

\* executeWithRetry with every maxAttempts up to MaxAttempts, every outcome
\* of every attempt and every answer of shouldRetry
NextRetry ==
  \/ ExecuteCalled
  \/ AttemptFulfilled
  \/ AttemptRejected
  \/ RetryDelayOver

SpecRetry == Init /\ [][NextRetry]_vars

\* one CircularBuffer of every capacity up to MaxCapacity under every
\* sequence of writes and reads
NextRing ==
  \/ BufferConstructed
  \/ BufferWrite
  \/ BufferRead

SpecRing == Init /\ [][NextRing]_vars

(***************************************************************************)
(* Properties.                                                             *)
(***************************************************************************)
\* C1: the Active Connection Set never holds more than
\* MAX_CONCURRENT_CLIENT_CONNECTIONS connections, and a connection accepted
\* while it holds that many is never a member of it and never enters the
\* request pipeline: it gets no lifecycle or data listener, no message
\* timer, no receive and no call of the handler
C1_CeilingHolds ==
  /\ ActiveSize <= MAX_CONCURRENT_CLIENT_CONNECTIONS
  /\ \A r \in Conns :
       r.kind = "rejected" =>
         /\ ~r.tracked /\ ~r.listening /\ ~r.dataListener
         /\ r.msgTimer = "none" /\ r.pc = "done"
         /\ r.received = Pending /\ r.calls = <<>>

\* the set is full, a further connection was turned away, and a member of
\* the set has already closed its side
C1_Witness ==
  /\ ActiveSize = MAX_CONCURRENT_CLIENT_CONNECTIONS
  /\ \E r \in Conns : r.kind = "rejected"
  /\ \E r \in Conns : r.tracked /\ r.peer = "ended"


\* the positions of the terminators of a stream, the bytes of its first frame
Terminators(stream) == {i \in 1..Len(stream) : stream[i] = NULL_BYTE}
FirstFrame(stream) == SubSeq(stream, 1, Min(Terminators(stream)) - 1)

\* the Request Message a frame stands for, or the parse error
RequestOf(frame) ==
  LET text == Utf8Decode(frame)
      parsed == JsonParse(IF text # <<>> /\ text[1] = BomChar THEN Tail(text) ELSE text)
  IN  IF parsed.ok THEN Resolved(parsed.val) ELSE Rejected("Invalid JSON in message")

\* the Response Messages that answer a settled receive
ResponsesTo(res) ==
  IF res.st = "rejected" THEN {Response(FALSE, res.err, Undefined)}
  ELSE LET v == validateClientRequest(res.val)
           pythonPath == GetProp(res.val, KeyPythonPath)
       IN  IF ~v.isValid THEN {Response(FALSE, v.error, v.about)}
           ELSE IF SwitchInputInvalid(pythonPath) THEN {SwitchResult("invalid", pythonPath)}
           ELSE {SwitchResult(o, pythonPath) : o \in HandlerOutcomes}

\* the whole stream of r, two complete frames or more, arrived as one chunk
Burst(r) ==
  /\ r.kind = "admitted" /\ r.chunks = 1 /\ r.sent = Len(r.stream)
  /\ Cardinality(Terminators(r.stream)) >= 2

\* the connection was ended or destroyed from outside the pipeline: by
\* graceful shutdown, by the idle timeout or by the peer
Cut(r) ==
  \/ r.endedBy \in {"shutdown", "idle", "peer"}
  \/ r.peer = "reset"

\* C2 as stated: a burst of N >= 2 frames gets exactly one Response Message,
\* the one of its first frame; nothing after the first terminator is parsed
\* and the handler is invoked at most once
C2_Original ==
  \A r \in Conns :
    Burst(r) /\ r.pc = "done" =>
      /\ Len(r.written) = 1
      /\ r.written[1] \in ResponsesTo(RequestOf(FirstFrame(r.stream)))
      /\ Len(r.calls) <= 1

\* C2 amended: a burst gets at most one Response Message and it answers the
\* first frame alone; the receive settles with the first frame; the handler
\* is invoked at most once, with the path of the first frame; and the one
\* response is missing only when the connection was cut before it could be
\* written
C2_FirstFrameOnly ==
  \A r \in Conns :
    Burst(r) =>
      LET first == RequestOf(FirstFrame(r.stream))
      IN  /\ r.received = first
          /\ Len(r.written) <= 1
          /\ \A i \in 1..Len(r.written) : r.written[i] \in ResponsesTo(first)
          /\ Len(r.calls) <= 1
          /\ \A i \in 1..Len(r.calls) :
               /\ first.st = "resolved"
               /\ r.calls[i] = <<GetProp(first.val, KeyPythonPath),
                                 GetProp(first.val, KeyShortName)>>
          /\ r.pc = "done" /\ ~Cut(r) => Len(r.written) = 1

\* three frames came in one chunk; the first, "/q", was answered with
\* success, the two for "/p" were not looked at
C2_Witness ==
  \E r \in Conns :
    /\ Burst(r) /\ r.stream = ValidFrameQ \o ValidFrameP \o ValidFrameP
    /\ r.pc = "done"
    /\ r.calls = << <<JStr(PathQ), Undefined>> >>
    /\ r.written = << Response(TRUE, "", JStr(PathQ)) >>


\* C3: whatever the order of data, socket errors, message timeout, idle
\* timeout and close, the socket of a connection accepts at most one
\* Response Message
C3_AtMostOneResponse ==
  \A r \in Conns : Len(r.written) <= 1

\* the response was written, then the connection broke: the error listener
\* tried to write an error response as well, and the destroyed socket
\* refused it
C3_Witness ==
  \E r \in Conns :
    /\ r.kind = "admitted" /\ Len(r.written) = 1 /\ r.written[1].success
    /\ r.peer = "reset" /\ r.lost # <<>>

\* C4 as stated: with no shutdown and a peer that stays, an admitted
\* connection whose valid frame came before the message timeout has the
\* result of the handler written before the server closes it, however long
\* the handler takes
C4_HandlerResultWritten ==
  \A r \in Conns :
    ( /\ r.kind = "admitted" /\ server = "listening" /\ r.peer = "open"
      /\ r.received.st = "resolved" /\ validateClientRequest(r.received.val).isValid
      /\ r.pc = "done" )
    => /\ Len(r.written) = 1
       /\ r.written[1] \in ResponsesTo(r.received)

\* the first frame of r has arrived, terminator included
Extracted(r) ==
  /\ r.kind = "admitted"
  /\ \E i \in Terminators(r.stream) : i <= r.sent

\* the first frame is malformed JSON, or names another action, or has no
\* valid pythonPath
BadFrame(stream) ==
  LET first == RequestOf(FirstFrame(stream))
  IN  \/ first.st = "rejected"
      \/ ~validateClientRequest(first.val).isValid
      \/ SwitchInputInvalid(GetProp(first.val, KeyPythonPath))

\* C5 as stated: every complete frame that arrived and is malformed, of
\* another action or without a valid pythonPath is answered with a
\* success=false Response Message written before the server's close
C5_Original ==
  \A r \in Conns :
    Extracted(r) /\ BadFrame(r.stream) =>
      /\ Len(r.written) = 1
      /\ ~r.written[1].success

\* C5 amended: the same while no shutdown is in progress, and the response
\* is the one of that frame
C5_FailureAnswered ==
  \A r \in Conns :
    Extracted(r) /\ BadFrame(r.stream) /\ server = "listening" =>
      /\ Len(r.written) = 1
      /\ ~r.written[1].success
      /\ r.written[1] \in ResponsesTo(RequestOf(FirstFrame(r.stream)))

\* the empty message (a terminator and nothing before it) was answered with
\* the parse error, and the connection was ended after that
C5_Witness ==
  \E r \in Conns :
    /\ Extracted(r) /\ r.stream = <<NULL_BYTE>>
    /\ r.written = << Response(FALSE, "Invalid JSON in message", Undefined) >>
    /\ r.endedBy = "pipeline"

\* C6 as stated: switchInterpreter is invoked only for a request whose
\* action is "set-interpreter" and whose pythonPath is a non-empty string
C6_HandlerOnlyForStringPath ==
  \A r \in Conns :
    \A i \in 1..Len(r.calls) :
      /\ GetProp(r.received.val, KeyAction) = JStr(SetInterpreter)
      /\ r.calls[i][1].t = "string"
      /\ r.calls[i][1].s # <<>>


\* the step is the arrival of connection x
Arrives(x) == conns' = conns (+) SetToBag({x})

\* x was answered with the rejection and then ended, outside the set
Turned(x) ==
  /\ x.kind = "rejected" /\ ~x.tracked
  /\ x.written = <<RejectionResponse>> /\ x.lost = <<>>
  /\ x.ended /\ x.endedBy = "reject" /\ x.firmTimers = 1

\* C7 as stated: every connection that arrives while the Active Connection
\* Set is at the ceiling is answered with the rejection and then closed,
\* however many connections are open
C7_Original ==
  [][\A x \in BagToSet(conns') :
       Arrives(x) /\ ActiveSize >= MAX_CONCURRENT_CLIENT_CONNECTIONS => Turned(x)]_vars

\* C7 amended: that holds for a connection that arrives while the listener
\* has fewer than MAX_CONCURRENT_CLIENT_CONNECTIONS + 2 open sockets; one
\* that arrives when it has that many is closed by the listener without a
\* response
C7_RejectionBelowMaxConnections ==
  [][\A x \in BagToSet(conns') :
       Arrives(x) /\ ActiveSize >= MAX_CONCURRENT_CLIENT_CONNECTIONS =>
         IF ServerConnections < MAX_CONCURRENT_CLIENT_CONNECTIONS + 2
         THEN Turned(x)
         ELSE x.kind = "dropped" /\ x.written = <<>> /\ x.destroyed]_vars

\* the set is full and two more connections were answered with the
\* rejection, both still open on the client's side
C7_Witness ==
  /\ ActiveSize = MAX_CONCURRENT_CLIENT_CONNECTIONS
  /\ \E r \in Conns : Turned(r) /\ ~r.destroyed /\ conns[r] = 2

\* C8: while no terminator has come and the message timer has not fired, a
\* connection that has delivered up to MAX_BUFFER_SIZE bytes still waits,
\* unended; one that has delivered more has failed with the size-limit
\* error and is being closed, however the bytes were cut into chunks
C8_SizeLimitBoundary ==
  \A r \in Conns :
    ( /\ r.kind = "admitted" /\ r.chunks >= 1 /\ r.msgTimer # "fired"
      /\ \A i \in Terminators(r.stream) : i > r.sent )
    => IF r.sent <= MAX_BUFFER_SIZE
       THEN /\ r.received = Pending /\ r.pc = "receiving"
            /\ r.endedBy # "overflow" /\ r.firmTimers = 0
            /\ ~r.destroyed => Len(r.messageBuffer) = r.sent
       ELSE /\ r.received = Rejected("Message size exceeds limit")
            /\ r.pc = "done" /\ r.ended /\ r.calls = <<>>

\* MAX_BUFFER_SIZE + 1 bytes came in several chunks and the last of them
\* failed the connection; the error response found the socket ended
C8_Witness ==
  \E r \in Conns :
    /\ r.stream = Filler(MAX_BUFFER_SIZE + 1) /\ r.sent = MAX_BUFFER_SIZE + 1
    /\ r.chunks = 2 /\ r.msgTimer = "cleared"
    /\ r.received = Rejected("Message size exceeds limit")
    /\ r.endedBy = "overflow" /\ r.written = <<>> /\ r.lost # <<>>

\* C9 as stated: a message with more than MAX_BUFFER_SIZE bytes before its
\* terminator is never parsed into a request, never reaches the handler and
\* gets no success, however its bytes are cut into chunks
C9_OversizedNeverHandled ==
  \A r \in Conns :
    ( /\ r.kind = "admitted" /\ Terminators(r.stream) # {}
      /\ Len(FirstFrame(r.stream)) > MAX_BUFFER_SIZE )
    => /\ r.received.st # "resolved"
       /\ r.calls = <<>>
       /\ \A i \in 1..Len(r.written) : ~r.written[i].success


\* the stream of r is one frame that holds a valid request
OneValidFrame(r) ==
  /\ r.kind = "admitted"
  /\ Terminators(r.stream) = {Len(r.stream)}
  /\ LET req == RequestOf(FirstFrame(r.stream))
     IN  req.st = "resolved" /\ validateClientRequest(req.val).isValid

\* how the receive settles when the stream arrives as a single chunk
WholeDelivery(stream) ==
  dataEventHandler([NewSocket(stream) EXCEPT !.dataListener = TRUE, !.msgTimer = "pending",
                                             !.pc = "receiving", !.chunks = 1,
                                             !.sent = Len(stream)],
                   stream).received

Silent(r) == r.kind = "admitted" /\ r.sent = 0 /\ r.peer = "open"

\* the message timer of r fired: the socket was ended by it, the receive
\* failed with the timeout error and the handler was not called
TimedOut(r) ==
  /\ r.ended /\ r.pc = "done"
  /\ r.received = Rejected("Connection timeout - message incomplete")
  /\ r.calls = <<>>

\* C11 as stated: a connection that sends nothing is neither ended nor
\* answered by the server while its message timer is pending, and when the
\* timer has fired it is ended with the timeout error, the handler never
\* invoked
C11_Original ==
  \A r \in Conns :
    Silent(r) =>
      /\ r.msgTimer \in {"pending", "fired"}
      /\ r.msgTimer = "pending" =>
           ~r.ended /\ ~r.destroyed /\ r.written = <<>> /\ r.lost = <<>>
      /\ r.msgTimer = "fired" => TimedOut(r)

\* C11 amended: the same while no shutdown is in progress (graceful
\* shutdown ends a silent connection before its timer fires)
C11_TimeoutBoundary ==
  \A r \in Conns :
    Silent(r) =>
      /\ r.msgTimer \in {"pending", "fired"}
      /\ r.msgTimer = "pending" /\ server = "listening" =>
           /\ ~r.ended /\ ~r.destroyed /\ r.written = <<>> /\ r.lost = <<>>
           /\ r.pc = "receiving" /\ r.tracked
      /\ r.msgTimer = "fired" =>
           /\ TimedOut(r)
           /\ server = "listening" => r.endedBy = "msgTimeout"

\* the timer of a silent connection has fired on a listening server and
\* ended the connection
C11_Witness ==
  \E r \in Conns :
    /\ Silent(r) /\ r.stream = <<>> /\ r.msgTimer = "fired"
    /\ r.endedBy = "msgTimeout" /\ server = "listening"


\* C12: when the size cap is exceeded the size-limit error response is
\* written while the connection is still writable, before end(): a
\* connection ended for its size carries that response among the written
C12_SizeLimitErrorWritten ==
  \A r \in Conns :
    ( /\ r.kind = "admitted" /\ r.endedBy = "overflow"
      /\ r.received = Rejected("Message size exceeds limit") /\ r.pc = "done" )
    => \E i \in DOMAIN r.written :
         r.written[i] = Response(FALSE, "Message size exceeds limit", Undefined)


\* the step replaces connection r by q
Becomes(r, q) == r # q /\ conns' = (conns (-) SetToBag({r})) (+) SetToBag({q})

\* the step is the one in which the server calls end() on the connection
EndInitiated(r, q) ==
  ~r.ended /\ ~r.destroyed /\ q.ended /\ q.endedBy # "peer" /\ q.kind = "admitted"

\* C13 as stated: the server initiates the close of a connection only after
\* the write of every response has completed: the step that calls end()
\* writes nothing itself, and if a write was awaited it is the step of its
\* callback
C13_Original ==
  [][ \A r \in Conns : \A q \in BagToSet(conns') :
        Becomes(r, q) /\ EndInitiated(r, q) =>
          /\ q.written = r.written
          /\ r.pc = "writing" => q.endedBy = "pipeline" /\ q.pc = "done" ]_vars

\* C13 amended: the result of the handler is written with the write awaited,
\* the close following in the step of the write's callback (no shutdown in
\* progress); a response written in the very step that calls end() is an
\* error response for a connection whose request never reached the handler
C13_HandlerResultAwaited ==
  [][ \A r \in Conns : \A q \in BagToSet(conns') :
        Becomes(r, q) /\ EndInitiated(r, q) =>
          /\ q.written # r.written =>
               /\ r.pc = "receiving" /\ q.calls = <<>>
               /\ Len(q.written) = Len(r.written) + 1
               /\ ~q.written[Len(q.written)].success
               /\ q.endedBy = "pipeline"
          /\ q.calls # <<>> => q.written = r.written
          /\ r.pc = "writing" /\ server' = "listening" =>
               q.endedBy = "pipeline" /\ q.pc = "done" ]_vars

\* a success response was written, its write was awaited, and the callback
\* of the write has ended the connection
C13_Witness ==
  \E r \in Conns :
    /\ r.kind = "admitted" /\ r.pc = "done" /\ r.endedBy = "pipeline"
    /\ r.written # <<>> /\ r.written[1].success /\ r.lost = <<>>
    /\ server = "listening"


\* the position of handleClientConnection as a pipeline state: awaiting the
\* message, dispatching (validation is the same callback), responding, closed
Rank(pc) == CASE pc = "receiving" -> 1 [] pc = "handler" -> 2
              [] pc = "writing" -> 3 [] pc = "done" -> 4

\* a response was attempted on q, written or refused
Responded(q) == q.written # <<>> \/ q.lost # <<>>

\* C14 as stated: the pipeline of an admitted connection only moves forward,
\* and the server never initiates the close of a connection before its
\* responding step (even with no shutdown): whoever calls end(), a response
\* has been attempted before and the pipeline is past responding
C14_Original ==
  [][ \A r \in Conns : \A q \in BagToSet(conns') :
        Becomes(r, q) /\ q.kind = "admitted" /\ server' = "listening" =>
          /\ Rank(r.pc) <= Rank(q.pc)
          /\ EndInitiated(r, q) =>
               q.endedBy = "pipeline" /\ q.pc = "done" /\ Responded(q) ]_vars

\* C14 amended: the pipeline only moves forward, no state is entered twice,
\* and the close of the pipeline itself (the finally block) comes after the
\* responding step; the message timeout and the size cap call end() while
\* the message is awaited, the idle timeout while the handler runs, and a
\* shutdown wherever the pipeline stands
C14_PipelineOrder ==
  [][ \A r \in Conns : \A q \in BagToSet(conns') :
        Becomes(r, q) /\ q.kind = "admitted" =>
          /\ Rank(r.pc) <= Rank(q.pc)
          /\ r.pc = "done" => q.written = r.written /\ q.calls = r.calls
          /\ EndInitiated(r, q) =>
               CASE q.endedBy = "pipeline" ->
                      /\ q.pc = "done" /\ Responded(q)
                      /\ r.pc \in {"receiving", "writing"}
                 [] q.endedBy \in {"msgTimeout", "overflow"} ->
                      r.pc = "receiving" /\ q.pc = "done" /\ q.written = r.written
                 [] q.endedBy = "idle" -> r.pc = "handler" /\ q.pc = "handler"
                 [] q.endedBy = "shutdown" -> q.pc = r.pc /\ server' = "closing"
                 [] OTHER -> FALSE ]_vars

\* a connection went through every state in turn: its request reached the
\* handler, the result was written and then the finally block closed it
C14_Witness ==
  \E r \in Conns :
    /\ r.kind = "admitted" /\ r.pc = "done" /\ r.endedBy = "pipeline"
    /\ r.received.st = "resolved" /\ Len(r.calls) = 1 /\ Len(r.written) = 1
    /\ r.firmTimers = 1 /\ ~r.closed


\* the connection was accepted by the listener and given to
\* handleClientConnection, admitted or rejected
Accepted(r) == r.kind \in {"admitted", "rejected"}

\* C15: every accepted connection, admitted or rejected, is eventually
\* fully closed and out of the Active Connection Set although its peer
\* never closes: from some moment on no accepted connection is open
C15_EventuallyClosed ==
  <>[](\A r \in Conns : Accepted(r) => r.closed /\ ~r.tracked /\ r.destroyed)

\* the hard-close timer has destroyed a rejected and an admitted connection
\* whose peers are still there, the "close" events still to come
C15_Witness ==
  /\ \E r \in Conns :
       /\ r.kind = "rejected" /\ r.peer = "open" /\ r.ended
       /\ r.destroyed /\ r.firmTimers = 0 /\ ~r.closed
  /\ \E r \in Conns :
       /\ r.kind = "admitted" /\ r.peer = "open" /\ r.endedBy = "msgTimeout"
       /\ r.destroyed /\ r.firmTimers = 0 /\ ~r.closed /\ r.tracked


\* C16: a connection that has closed, by whatever path, is not in the
\* Active Connection Set and never enters it again; the set changes only by
\* the arrival of one admitted connection or by the removal of the one
\* connection that closes in the step, every other connection unchanged
C16_RemovedOnClose ==
  [][ /\ \A q \in BagToSet(conns') : q.closed => ~q.tracked /\ ~q.listening
      /\ ActiveSize' # ActiveSize =>
           \/ ActiveSize' = ActiveSize + 1 /\ \E x \in BagToSet(conns') :
                Arrives(x) /\ x.tracked /\ ~x.closed
           \/ ActiveSize' = ActiveSize - 1 /\ \E r \in Conns : \E q \in BagToSet(conns') :
                Becomes(r, q) /\ r.tracked /\ ~r.closed /\ q.closed /\ ~q.tracked
      /\ \A r \in Conns : \A q \in BagToSet(conns') :
           Becomes(r, q) /\ ~r.tracked => ~q.tracked
      /\ \A r \in Conns : \A q \in BagToSet(conns') :
           Becomes(r, q) /\ r.tracked /\ ~q.tracked => r.destroyed /\ q.closed ]_vars

\* two connections are in the set while a third, ended by the message
\* timeout and closed, is out of the set with its timers still pending
C16_Witness ==
  /\ ActiveSize = 2
  /\ \E r \in Conns :
       /\ r.kind = "admitted" /\ r.closed /\ ~r.tracked
       /\ r.endedBy = "msgTimeout" /\ r.peer = "open" /\ r.firmTimers = 2


\* the success path: the frame was received, the handler resolved and its
\* success response was written
SuccessPath(r) ==
  /\ r.kind = "admitted" /\ r.received.st = "resolved"
  /\ r.written # <<>> /\ r.written[1].success

\* C17 as stated: on the success path both timers are cleared, so that once
\* the connection has closed no timer armed for it is pending
C17_Original ==
  \A r \in Conns :
    SuccessPath(r) /\ r.closed => r.msgTimer # "pending" /\ r.firmTimers = 0

\* C17 amended: on the success path the message timer is cleared when the
\* frame is received; the single hard-close timer, armed by the finally
\* block, is never cleared: it is gone only after it has fired, and it may
\* still be pending when the connection has closed
C17_MessageTimerCleared ==
  \A r \in Conns :
    SuccessPath(r) =>
      /\ r.msgTimer = "cleared"
      /\ r.pc \in {"writing", "done"}
      /\ r.pc = "writing" => r.firmTimers = 0
      /\ r.pc = "done" => /\ r.firmTimers <= 1
                          /\ r.firmTimers = 0 => r.destroyed

\* the success response was written and the connection has closed after its
\* peer ended it, the hard-close timer still pending
C17_Witness ==
  \E r \in Conns :
    /\ SuccessPath(r) /\ r.pc = "done" /\ r.endedBy = "pipeline"
    /\ r.peer = "ended" /\ r.closed /\ ~r.tracked /\ r.firmTimers = 1


\* C18: every response with success = false that the server writes carries
\* an error text
C18_FailureCarriesError ==
  \A r \in Conns : \A i \in DOMAIN r.written :
    ~r.written[i].success => r.written[i].error # ""


\* C19: no failure of any step, the capacity-rejection path included,
\* escapes the handling of its connection: no error of a connection is left
\* without a handler
C19_NothingEscapes ==
  \A r \in Conns : ~r.uncaught


\* C20: the promise of gracefullyShutdownServer is resolved only when the
\* close callback of the listener has run, and from then on the socket file
\* does not exist; until the shutdown is called the file is there and the
\* promise is not
C20_ResolvedAfterClose ==
  /\ shutdownPromise = "resolved" => server = "closed" /\ ~socketFile
  /\ server = "closed" => shutdownPromise = "resolved"
  /\ server = "closing" => shutdownPromise = "pending"
  /\ server = "listening" => shutdownPromise = "none" /\ socketFile

\* the shutdown ended a connection that was waiting for its message, the
\* connection closed, the listener closed and the promise is resolved
C20_Witness ==
  /\ shutdownPromise = "resolved" /\ server = "closed" /\ ~socketFile
  /\ \E r \in Conns :
       r.kind = "admitted" /\ r.endedBy = "shutdown" /\ r.closed /\ r.firmTimers > 0


\* C21: startUnixSocketServer removes the file at the socket path before it
\* binds, so that every successful activation leaves a listening server and
\* its socket file; if the file cannot be removed the start throws, no
\* server is created, the file stays, and activate reports the failure
C21_StaleFileRemovedOrReported ==
  /\ activation \in {"none", "ok", "failed"}
  /\ activation = "ok" => gen >= 1 /\ server \in {"listening", "closing", "closed"} /\ ~foreign
  /\ activation = "failed" => foreign /\ socketFile /\ server = "unstarted" /\ gen = 0
  /\ foreign => server = "unstarted" /\ conns = EmptyBag

\* the file at the path could not be removed: activate has reported the
\* failure and there is no server
C21_Witness ==
  activation = "failed" /\ foreign /\ socketFile /\ server = "unstarted"


\* the states of a server instance in their order
StateRank(s) == CASE s = "unstarted" -> 0 [] s = "listening" -> 1
                  [] s = "closing" -> 2 [] s = "closed" -> 3

\* C22: a server instance only moves forward through unstarted, listening,
\* shutting down and stopped; a connection is admitted only by the instance
\* that is listening, never by one that gracefullyShutdownServer was called
\* on, and a server listens again only as a new instance
C22_InstanceMovesForward ==
  [][ /\ gen' = gen => StateRank(server) <= StateRank(server')
      /\ gen' # gen => /\ gen' = gen + 1 /\ server' = "listening"
                       /\ server # "listening"
      /\ \A g \in closing' : g < gen'
      /\ \A x \in BagToSet(conns') :
           Arrives(x) => /\ server = "listening" /\ server' = "listening"
                         /\ x.gen = gen /\ gen \notin closing ]_vars

\* a second instance listens and has admitted a connection while the first,
\* shut down, still waits for its connection to go
C22_Witness ==
  /\ gen = 2 /\ server = "listening" /\ closing = {1}
  /\ \E r \in Conns : r.gen = 1 /\ ~r.destroyed /\ r.endedBy = "shutdown"
  /\ \E r \in Conns : r.gen = 2 /\ r.kind = "admitted" /\ ~r.ended


\* C23: whenever startUnixSocketServer creates an instance the Active
\* Connection Set is empty: no connection of an earlier instance is in it
C23_SetEmptyAtStart ==
  [][ gen' # gen => ActiveSize = 0 ]_vars


\* C24: with several connections admitted at once and their chunks
\* interleaved in any order, what a connection accumulates, receives, hands
\* to the handler and is answered with comes from its own bytes alone
C24_OwnFrameOnly ==
  \A r \in Conns :
    r.kind = "admitted" =>
      LET own == RequestOf(FirstFrame(r.stream))
      IN  /\ r.messageBuffer = SubSeq(r.stream, 1, Len(r.messageBuffer))
          /\ r.received \in
               {Pending, own, Rejected("Connection timeout - message incomplete")}
          /\ \A i \in 1..Len(r.calls) :
               r.calls[i] = <<GetProp(own.val, KeyPythonPath), GetProp(own.val, KeyShortName)>>
          /\ \A i \in 1..Len(r.written) :
               r.written[i] \in ResponsesTo(r.received)
          /\ r.sent = Len(r.stream) /\ r.msgTimer = "cleared" => r.received = own

\* one connection got its request in pieces and was answered for it while
\* the other, with a different request, was still in the middle of its own
C24_Witness ==
  \E r, q \in Conns :
    /\ r.stream = LongFrameP /\ q.stream = LongFrameQ
    /\ r.chunks = 2 /\ r.pc = "done" /\ Len(r.written) = 1 /\ r.written[1].success
    /\ r.written[1].about = JStr(PathP \o Filler(MaxFullSplitLen))
    /\ q.pc = "receiving" /\ q.messageBuffer # <<>> /\ q.msgTimer = "pending"


\* C25: for every valid request R, the frame of R is its serialization
\* followed by one terminator, the serialization holds no terminator byte,
\* no other request has the same frame, and the receiver, given the frame
\* in any pieces, recovers R itself
C25_DecodeOfEncode ==
  \A r \in Conns : \A R \in CodecSource[r.stream] :
      /\ Terminators(r.stream) = {Len(r.stream)}
      /\ SubSeq(r.stream, 1, Len(r.stream) - 1) = Utf8Encode(JsonStringify(R))
      /\ CodecSource[r.stream] = {R}
      /\ r.received \in {Pending, Resolved(R)}
      /\ r.sent = Len(r.stream) =>
           /\ r.received = Resolved(R)
           /\ r.calls = << <<GetProp(R, KeyPythonPath), GetProp(R, KeyShortName)>> >>

\* a request whose path is a quote and U+0000 went out in three pieces or
\* more and was received as it was sent
C25_Witness ==
  \E r \in Conns :
    /\ r.stream = Frame(SetInterpreterRequest(JStr(<<Quote, 0>>)))
    /\ r.chunks = 2 /\ r.sent = Len(r.stream)
    /\ r.received = Resolved(SetInterpreterRequest(JStr(<<Quote, 0>>)))


\* the body holds no pythonPath that is a non-empty string
LacksPythonPath(body) ==
  LET parsed == JsonParse(body)
      path == GetProp(parsed.val, KeyPythonPath)
  IN  ~(parsed.ok /\ path.t = "string" /\ path.s # <<>>)

NotFound == <<[status |-> HTTP_NOT_FOUND, success |-> FALSE]>>
BadRequest == <<[status |-> HTTP_BAD_REQUEST, success |-> FALSE]>>
Routed(q) == q.method = "POST" /\ q.url = "/set-interpreter"

\* C26 as stated: a request other than POST /set-interpreter is answered
\* with 404 and success=false; a POST /set-interpreter whose body has no
\* non-empty string pythonPath is answered, once the body is in, with 400
\* and success=false and the Python API is not called; no request gets two
\* responses and a finished one has got one.
C26_Original ==
  \A i \in 1..Len(requests) :
    LET q == requests[i]
    IN  /\ ~Routed(q) => q.responses = NotFound
        /\ Routed(q) /\ q.pc # "reading" /\ LacksPythonPath(q.body)
             => q.responses = BadRequest /\ q.apiCalls = 0
        /\ Len(q.responses) <= 1
        /\ q.pc = "done" => Len(q.responses) = 1

\* C26, amended: the 400 is for a body that is JSON (a body that is not is
\* answered with 500, success=false, the Python API not called either).
C26_HttpRouting ==
  \A i \in 1..Len(requests) :
    LET q == requests[i]
    IN  /\ ~Routed(q) => q.responses = NotFound /\ q.apiCalls = 0
        /\ Routed(q) /\ q.pc # "reading" /\ LacksPythonPath(q.body)
             => /\ q.apiCalls = 0
                /\ Len(q.responses) = 1
                /\ ~q.responses[1].success
                /\ q.responses[1].status =
                     IF JsonParse(q.body).ok THEN HTTP_BAD_REQUEST ELSE HTTP_SERVER_ERROR
        /\ Len(q.responses) <= 1
        /\ q.pc = "done" => Len(q.responses) = 1

\* a GET has been answered and so has a POST whose pythonPath is a number
C26_Witness ==
  \E i, j \in 1..Len(requests) :
    /\ requests[i].method = "GET" /\ requests[i].responses = NotFound
    /\ Routed(requests[j]) /\ requests[j].body = PythonPathBody(JNum(Number12345))
    /\ requests[j].responses = BadRequest


\* C27: whenever the server instance is listening, the file of its socket
\* path exists; the close callback of an earlier instance does not unlink
\* the file of a newer one.
C27_ListeningHasSocketFile == server = "listening" => socketFile


C29_InFlightResponseDelivered ==
  [][ server = "listening" /\ server' = "closing" =>
        \A r \in Conns : \A q \in BagToSet(conns') :
          Becomes(r, q) /\ r.pc = "handler" /\ ~r.ended /\ ~r.destroyed =>
            \A outcome \in HandlerOutcomes :
              LET resp == SwitchResult(outcome, q.calls[Len(q.calls)][1])
              IN  Respond(q, resp).written = Append(q.written, resp) ]_vars


\* the receive phase of r has failed: the message timer fired or the size
\* cap was exceeded
ReceiveFailed(r) ==
  \/ r.msgTimer = "fired"
  \/ r.endedBy = "overflow"
  \/ r.received \in { Rejected("Connection timeout - message incomplete"),
                      Rejected("Message size exceeds limit") }

\* C30: once the receive phase of a connection has failed by timeout or by
\* the size cap, no later step (data that arrives, a timer, the peer)
\* invokes the handler for it or writes a success response to it.
C30_NoHandlerAfterFailedReceive ==
  [][ \A r \in Conns : \A q \in BagToSet(conns') :
        Becomes(r, q) /\ ReceiveFailed(r) =>
          /\ q.calls = <<>>
          /\ \A i \in 1..Len(q.written) : ~q.written[i].success ]_vars

\* the timer fired on a client that had sent part of a valid frame and
\* still has the rest to send, and the connection has gone on to close
C30_Witness ==
  \E r \in Conns :
    /\ r.msgTimer = "fired" /\ r.closed
    /\ Terminators(r.stream) # {} /\ r.sent > 0 /\ r.sent < Len(r.stream)
    /\ r.peer = "open"


C32_DeactivateIdempotent ==
  [][ /\ deactivations' # deactivations =>
           /\ serverRef' = 0
           /\ serverRef = 0 =>
                UNCHANGED <<conns, server, socketFile, shutdownPromise, shutdownCalls>>
           /\ serverRef # 0 => shutdownCalls'[serverRef] = 1 /\ server' = "closing"
      /\ \A g \in 1..Len(shutdownCalls') : shutdownCalls'[g] <= 1 ]_vars

\* deactivate was called again while the shutdown it had started was still
\* waiting for a connection to close
C32_Witness ==
  /\ deactivations >= 2 /\ serverRef = 0 /\ gen >= 1
  /\ server = "closing" /\ shutdownCalls[gen] = 1
  /\ \E r \in Conns : r.endedBy = "shutdown" /\ ~r.closed


\* what the promise settles with when e is the first thing that happens
SettledBy(e) ==
  CASE e[1] = "callback" -> <<"resolved", e[2]>>
    [] e[1] = "threw" -> <<"rejected", "processor threw">>
    [] OTHER -> <<"rejected", "Message processing timeout">>

\* C33: the promise of promisifyCallbackFunction is settled by the first of
\* the processor's callbacks, its exception and the timeout, and stays as
\* that one settled it; the timeout never comes after a callback or the
\* exception; the connection gets one response at most, which is the one
\* of that first event, whatever callbacks come later.
C33_SettlesOnce ==
  LET p == promisified
  IN  /\ p.events = <<>> => p.state \in {"none", "pending"} /\ p.written = <<>>
      /\ p.state = "pending" => p.callbackTimeout = "pending" /\ p.events = <<>>
      /\ p.events # <<>> => <<p.state, p.value>> = SettledBy(p.events[1])
      /\ \A i \in 2..Len(p.events) : p.events[i][1] # "timeout"
      /\ Len(p.written) <= 1
      /\ p.continued => p.written = <<SettledBy(p.events[1])>>

\* the timeout came first, the error was written to the connection, and the
\* processor called back afterwards
C33_Witness ==
  /\ promisified.events # <<>> /\ promisified.events[1][1] = "timeout"
  /\ Len(promisified.events) >= 2 /\ promisified.events[2][1] = "callback"
  /\ promisified.continued /\ Len(promisified.written) = 1


C35_BoundedLookups ==
  [][ LET s == lookup'
      IN  /\ s.lookups <= s.maxRetries + 1
          /\ s.pc # "idle" => s.lookups = s.retryCount + 1
          /\ s.pc = "delay" => ~s.found /\ s.retryCount < s.maxRetries
          /\ s.pc \in {"activating", "returned"} => s.found
          /\ ~s.found /\ s.pc # "idle" /\ s.retryCount = s.maxRetries =>
               s.pc = "threw" /\ s.error = "Python extension not found after multiple attempts"
          /\ lookup.found => s.lookups = lookup.lookups ]_vars

\* every lookup failed: maxRetries + 1 of them, and ensurePythonExtension
\* threw
C35_Witness ==
  /\ lookup.pc = "threw" /\ ~lookup.found
  /\ lookup.maxRetries = 3 /\ lookup.lookups = 4


\* C36: asyncFunction is called with 1, 2, ... and at most maxAttempts
\* times; a fulfilled attempt is the last one and its value is returned;
\* otherwise the error of the last attempt made is thrown, after
\* maxAttempts attempts or when shouldRetry returned false; onRetry has
\* been called once, with the attempt and its error, before each attempt
\* after the first.
C36_RetryBounded ==
  LET s == retrying
      n == Len(s.calls)
  IN  /\ n <= s.maxAttempts
      /\ \A i \in 1..n : s.calls[i] = i
      /\ s.pc = "attempting" => Len(s.errors) = n - 1 /\ Len(s.onRetryCalls) = n - 1
      /\ s.pc = "delay" =>
           n < s.maxAttempts /\ Len(s.errors) = n /\ Len(s.onRetryCalls) = n
      /\ s.pc = "returned" =>
           /\ Len(s.errors) = n - 1 /\ Len(s.onRetryCalls) = n - 1
           /\ s.result \in AttemptValues
      /\ s.pc = "threw" =>
           /\ n >= 1 /\ Len(s.errors) = n /\ Len(s.onRetryCalls) = n - 1
           /\ s.result = s.errors[n]
           /\ n = s.maxAttempts \/ s.refused
      /\ \A i \in 1..Len(s.onRetryCalls) : s.onRetryCalls[i] = <<i, s.errors[i]>>

\* the third of three attempts failed with another error than the second,
\* and that error was thrown
C36_Witness ==
  /\ retrying.pc = "threw" /\ retrying.maxAttempts = 3 /\ ~retrying.refused
  /\ retrying.errors = <<"busy", "busy", "gone">> /\ retrying.result = "gone"


\* C37: in a CircularBuffer of capacity at least 1, after any writes and
\* reads, available is between 0 and the capacity, head and tail are
\* offsets into the buffer, and tail is head + available modulo the
\* capacity.
C37_RingInvariant ==
  ring.capacity >= 1 =>
    /\ 0 <= ring.available /\ ring.available <= ring.capacity
    /\ 0 <= ring.head /\ ring.head < ring.capacity
    /\ 0 <= ring.tail /\ ring.tail < ring.capacity
    /\ ring.tail = (ring.head + ring.available) % ring.capacity

\* a message was read from a buffer whose bytes wrap around its end: the
\* tail is before the head and there is still something to read
C37_Witness ==
  /\ ring.capacity = 3 /\ ring.last.op = "read" /\ ~ring.last.null
  /\ ring.available > 0 /\ ring.tail < ring.head

\* the bytes, the positions and the count of a buffer
Stored(s) == <<s.buffer, s.head, s.tail, s.available>>

\* C38: write returns false exactly when the chunk is longer than
\* capacity - available; a write that returns false and a
\* readUntilDelimiter that returns null (none of the available bytes is
\* the delimiter) leave the bytes, head, tail and available as they were.
C38_RefusalsChangeNothing ==
  [][ ring.capacity >= 1 =>
        /\ ring'.last.op = "write" =>
             /\ ring'.last.returned = FALSE <=>
                  Len(ring'.last.chunk) > ring.capacity - ring.available
             /\ ring'.last.returned = FALSE => Stored(ring') = Stored(ring)
        /\ ring'.last.op = "read" =>
             /\ ring'.last.null <=>
                  \A k \in 0..(ring.available - 1) :
                    ring.buffer[((ring.head + k) % ring.capacity) + 1] # ring'.last.delimiter
             /\ ring'.last.null => Stored(ring') = Stored(ring) ]_ring

\* a chunk of two bytes was refused by a buffer of three that holds two
\* bytes wrapped around its end
C38_Witness ==
  /\ ring.capacity = 3 /\ ring.last.op = "write" /\ ring.last.returned = FALSE
  /\ Len(ring.last.chunk) = 2 /\ ring.available = 2 /\ ring.head = 2 /\ ring.tail = 1

=============================================================================
